---- MODULE Spec2Model ----
(***************************************************************************)
(* A model of the dfs lineup optimizer (src/dfs/optimize.py,               *)
(* src/dfs/constraints.py, src/dfs/nfl/optimize.py,                        *)
(* src/dfs/nfl/constraints.py, src/dfs/nfl/slate.py).                      *)
(*                                                                         *)
(* One optimizer instance is modelled.  Its state is the site it was built *)
(* for, the data frame it keeps after construction and the list of         *)
(* constraints; `lpVariable` is the 'LpVariable' column optimize_lineup     *)
(* adds to that data frame; `call` and `ret` record the last public method *)
(* invoked and what it returned or raised, `status` the status the solver  *)
(* reported to it, if it solved.  `table` is the data frame of the caller  *)
(* the optimizer was constructed from, `other` a second optimizer          *)
(* constructed from the same table, and `files` the files lineups are      *)
(* written to.  The LP solver (pulp / CBC) is an external  *)
(* library and is modelled by its contract: it reports Optimal with an     *)
(* assignment that maximises the objective over the assignments satisfying *)
(* every constraint of the problem, or Infeasible when there is none.      *)
(*                                                                         *)
(* Representation choices:                                                 *)
(*   - points are integers in thousandths of a point;                      *)
(*   - a datetime is the number of hours since a Monday 00:00;             *)
(*   - a column value that is NaN/None is recorded in the row's `na` set;  *)
(*   - an optional int argument is the empty tuple (None) or <<n>>;        *)
(*   - player names and ids are strings;                                   *)
(*   - column-name parameters keep their defaults and are not carried in   *)
(*     the constraint records, except the name/id column of the player     *)
(*     constraints.                                                        *)
(***************************************************************************)
EXTENDS Integers, Sequences, FiniteSets, TLC

VARIABLES site, data, constraints, call, ret, lpVariable, status, table, other, files

vars == <<site, data, constraints, call, ret, lpVariable, status, table, other, files>>

----------------------------------------------------------------------------
(* Small helpers *)

None == "None"

NoneInt == << >>

SomeInt(n) == <<n>>

IsNoneInt(v) == Len(v) = 0

IntOf(v) == v[1]

SetMin(S) == CHOOSE m \in S : \A k \in S : m <= k

SetMax(S) == CHOOSE m \in S : \A k \in S : m >= k

Range(s) == {s[i] : i \in 1..Len(s)}

----------------------------------------------------------------------------
(* Positions: src/dfs/positions.py *)

QB == "QB"

RB == "RB"

WR == "WR"

TE == "TE"

DST == "DST"

FLEX == "FLEX"

(* position.upper() followed by re.sub(r'\W|_', '', ...), on the spellings *)
(* that occur in the rosters of this model.                                *)
UpperStripped(p) ==
    CASE p = "QB" -> "QB"
      [] p = "qb" -> "QB"
      [] p = "Quarterback" -> "QUARTERBACK"
      [] p = "RB" -> "RB"
      [] p = "rb" -> "RB"
      [] p = "Running Back" -> "RUNNINGBACK"
      [] p = "WR" -> "WR"
      [] p = "wide_receiver" -> "WIDERECEIVER"
      [] p = "TE" -> "TE"
      [] p = "te" -> "TE"
      [] p = "Tight-End" -> "TIGHTEND"
      [] p = "DST" -> "DST"
      [] p = "Defense" -> "DEFENSE"
      [] p = "D/ST" -> "DST"
      [] p = "K" -> "K"
      [] OTHER -> p

NormalizePosition(position) ==
    IF position = None THEN None
    ELSE LET normalized == UpperStripped(position) IN
         IF normalized \in {"QB", "QUARTERBACK"} THEN QB
         ELSE IF normalized \in {"RB", "RUNNINGBACK"} THEN RB
         ELSE IF normalized \in {"WR", "WIDERECEIVER"} THEN WR
         ELSE IF normalized \in {"TE", "TIGHTEND"} THEN TE
         ELSE IF normalized \in {"DST", "DEFENSE", "DEF", "DEFENSESPECIALTEAMS", "D"} THEN DST
         ELSE None

(* Presentation order of the lineup slots. *)
ORDER_DICT ==
    [p \in {QB, RB, WR, TE, FLEX, DST} |->
        CASE p = QB -> 0 [] p = RB -> 1 [] p = WR -> 2
          [] p = TE -> 3 [] p = FLEX -> 4 [] p = DST -> 5]

----------------------------------------------------------------------------
(* Site profiles: src/dfs/nfl/optimize.py *)

DraftKings == "DraftKings"

FanDuel == "FanDuel"

Yahoo == "Yahoo"

Sites == {DraftKings, FanDuel, Yahoo}

NumPlayers(s) == 9

SalaryCap(s) ==
    CASE s = DraftKings -> 50000
      [] s = FanDuel -> 60000
      [] s = Yahoo -> 200

PositionConstraints(s) ==
    [p \in {QB, RB, WR, TE, DST} |->
        CASE p = QB -> <<1, 1>>
          [] p = RB -> <<2, 3>>
          [] p = WR -> <<3, 4>>
          [] p = TE -> <<1, 2>>
          [] p = DST -> <<1, 1>>]

(* The order in which the positions are visited by optimize_lineup (the    *)
(* insertion order of the dict).                                           *)
PositionOrder == <<QB, RB, WR, TE, DST>>

----------------------------------------------------------------------------
(* The data frame handed to the optimizer.  Clock values used by the       *)
(* rosters: hours since Monday 00:00 of the calendar week before week 1.   *)

Thu20 == 3 * 24 + 20

Sun13 == 6 * 24 + 13

Sun16 == 6 * 24 + 16

Sun20 == 6 * 24 + 20

Mon20 == 7 * 24 + 20

NextThu20 == 10 * 24 + 20

Columns == {"name", "id", "position", "team", "opponent", "salary", "points",
            "datetime", "week", "year", "is_home"}

Row(id, name, position, team, opponent, salary, points, datetime, week, na) ==
    [id |-> id, name |-> name, position |-> position, team |-> team,
     opponent |-> opponent, salary |-> salary, points |-> points,
     datetime |-> datetime, week |-> week, year |-> 2020, is_home |-> TRUE,
     na |-> na]

(* The salary column of a site, from a DraftKings-scale salary. *)
SiteSalary(s, dk) ==
    CASE s = DraftKings -> dk
      [] s = FanDuel -> dk + 1000
      [] s = Yahoo -> dk \div 250

RawRoster(s) ==
    << Row("id1",  "Rodgers",    "QB",            "GB",  "CHI", SiteSalary(s, 7000), 24500, Sun13, 1, {}),
       Row("id2",  "Trubisky",   "qb",            "CHI", "GB",  SiteSalary(s, 5500), 18200, Sun13, 1, {}),
       Row("id3",  "Jones",      "RB",            "GB",  "CHI", SiteSalary(s, 7200), 22100, Sun13, 1, {}),
       Row("id4",  "Montgomery", "Running Back",  "CHI", "GB",  SiteSalary(s, 5800), 14300, Sun13, 1, {}),
       Row("id5",  "Swift",      "rb",            "DET", "MIN", SiteSalary(s, 5000), 13900, Mon20, 1, {}),
       Row("id6",  "Adams",      "WR",            "GB",  "CHI", SiteSalary(s, 8500), 26456, Sun13, 1, {}),
       Row("id7",  "Robinson",   "WR",            "CHI", "GB",  SiteSalary(s, 6800), 19700, Sun13, 1, {}),
       Row("id8",  "Mooney",     "wide_receiver", "CHI", "GB",  SiteSalary(s, 3600), 10100, Sun13, 1, {}),
       Row("id9",  "Golladay",   "WR",            "DET", "MIN", SiteSalary(s, 6000), 15500, Mon20, 1, {}),
       Row("id10", "Tonyan",     "TE",            "GB",  "CHI", SiteSalary(s, 4200), 12200, Sun13, 1, {}),
       Row("id11", "Hockenson",  "te",            "DET", "MIN", SiteSalary(s, 5000), 13100, Mon20, 1, {}),
       Row("id12", "Bears",      "DST",           "CHI", "GB",  SiteSalary(s, 3000),  8000, Sun13, 1, {}),
       Row("id13", "Packers",    "Defense",       "GB",  "CHI", SiteSalary(s, 3400),  9000, Sun13, 1, {}),
       Row("id14", "Crosby",     "K",             "GB",  "CHI", SiteSalary(s, 4000),  9500, Sun13, 1, {}),
       Row("id15", "Cohen",      "RB",            "CHI", "GB",  0,                   11000, Sun13, 1, {"salary"}),
       Row("id16", "Lazard",     "WR",            "GB",  "CHI", 0,                   30000, Sun13, 1, {}),
       Row("id17", "Kmet",       "TE",            "CHI", None,  SiteSalary(s, 2500), 20000, Sun13, 1, {"opponent"}) >>

(* LineupOptimizer.__init__, lines 240-242: the position column is         *)
(* normalised (an unrecognised position becomes None, a missing value),    *)
(* rows with any missing value are dropped, then rows whose salary is not  *)
(* positive.  The surviving rows keep their index labels.                  *)
NormalizedFrame(raw) ==
    [i \in DOMAIN raw |->
        LET p == NormalizePosition(raw[i].position) IN
        [raw[i] EXCEPT !.position = p,
                       !.na = IF p = None THEN @ \cup {"position"} ELSE @]]

(* Variant: only a missing salary or missing points drop a row. *)
DropNaSalaryOrPoints(frame) ==
    [i \in {j \in DOMAIN frame : frame[j].na \cap {"salary", "points"} = {}} |-> frame[i]]

DropNa(frame) ==
    [i \in {j \in DOMAIN frame : frame[j].na = {}} |-> frame[i]]

PositiveSalary(frame) ==
    [i \in {j \in DOMAIN frame : frame[j].salary > 0} |-> frame[i]]

Construct(raw) == PositiveSalary(DropNa(NormalizedFrame(raw)))

(* A roster of one week for the game slates: a full lineup of players in   *)
(* the early Sunday games, and better players in the late Sunday, Sunday   *)
(* night, Monday and Thursday games.                                       *)
SundayRoster(s) ==
    << Row("s1",  "Allen",       "QB",  "BUF", "MIA", SiteSalary(s, 7000), 22000, Sun13, 1, {}),
       Row("s2",  "Singletary",  "RB",  "BUF", "MIA", SiteSalary(s, 5000), 12000, Sun13, 1, {}),
       Row("s3",  "Gaskin",      "RB",  "MIA", "BUF", SiteSalary(s, 5200), 13000, Sun13, 1, {}),
       Row("s4",  "Diggs",       "WR",  "BUF", "MIA", SiteSalary(s, 7500), 20000, Sun13, 1, {}),
       Row("s5",  "Parker",      "WR",  "MIA", "BUF", SiteSalary(s, 5000), 12500, Sun13, 1, {}),
       Row("s6",  "Beasley",     "WR",  "BUF", "MIA", SiteSalary(s, 4000), 10000, Sun13, 1, {}),
       Row("s7",  "Gesicki",     "TE",  "MIA", "BUF", SiteSalary(s, 4500), 11000, Sun13, 1, {}),
       Row("s8",  "Bills",       "DST", "BUF", "MIA", SiteSalary(s, 3000),  8000, Sun13, 1, {}),
       Row("s9",  "Williams",    "WR",  "MIA", "BUF", SiteSalary(s, 3500),  8500, Sun13, 1, {}),
       Row("s10", "Metcalf",     "WR",  "SEA", "ARI", SiteSalary(s, 7000), 21000, Sun16, 1, {}),
       Row("s11", "Elliott",     "RB",  "DAL", "PHI", SiteSalary(s, 7000), 19000, Sun20, 1, {}),
       Row("s12", "Kelce",       "TE",  "KC",  "LV",  SiteSalary(s, 6500), 23000, Mon20, 1, {}),
       Row("s13", "Evans",       "WR",  "TB",  "NO",  SiteSalary(s, 6000), 18000, Thu20, 1, {}) >>

(* The main roster with a player whose points are missing and a player     *)
(* whose home flag is missing.                                             *)
NaRoster(s) ==
    RawRoster(s) \o
    << Row("id18", "Valdes",   "WR", "GB",  "CHI", SiteSalary(s, 3000), 0,     Sun13, 1, {"points"}),
       Row("id19", "Patterson", "RB", "CHI", "GB", SiteSalary(s, 3100), 27000, Sun13, 1, {"is_home"}) >>

(* The main roster with an id that two rows share. *)
DuplicateIdRoster(s) == [RawRoster(s) EXCEPT ![2].id = "id1"]

(* A data frame of the caller: its columns and its rows.  A missing value  *)
(* of a column the frame does not have does not exist.                     *)
DataFrame(columns, rows) ==
    [columns |-> columns,
     rows |-> [i \in DOMAIN rows |-> [rows[i] EXCEPT !.na = @ \cap columns]]]

(* The main roster without the players of a position *)
WithoutPosition(raw, position) ==
    LET Keep(r) == NormalizePosition(r.position) # position IN
    SelectSeq(raw, Keep)

(* The main roster with the players of a position under a position string *)
(* that normalize_position does not recognise                              *)
WithUnrecognized(raw, position) ==
    [i \in DOMAIN raw |->
        IF NormalizePosition(raw[i].position) = position
        THEN [raw[i] EXCEPT !.position = "H-Back"]
        ELSE raw[i]]

NextMon20 == 14 * 24 + 20

(* A roster of two weeks for the Monday/Thursday slate: a full lineup of   *)
(* players in the Monday game of the first week, and better players in the *)
(* Thursday game of the first week and in the Thursday and Monday games of *)
(* the next week.                                                          *)
TwoWeekRoster(s) ==
    << Row("m1",  "Carr",        "QB",  "LV",  "NO",  SiteSalary(s, 6000), 20000, Mon20, 1, {}),
       Row("m2",  "Jacobs",      "RB",  "LV",  "NO",  SiteSalary(s, 6500), 18000, Mon20, 1, {}),
       Row("m3",  "Kamara",      "RB",  "NO",  "LV",  SiteSalary(s, 7500), 24000, Mon20, 1, {}),
       Row("m4",  "Thomas",      "WR",  "NO",  "LV",  SiteSalary(s, 7000), 19000, Mon20, 1, {}),
       Row("m5",  "Ruggs",       "WR",  "LV",  "NO",  SiteSalary(s, 4500), 11000, Mon20, 1, {}),
       Row("m6",  "Sanders",     "WR",  "NO",  "LV",  SiteSalary(s, 4800), 12000, Mon20, 1, {}),
       Row("m7",  "Waller",      "TE",  "LV",  "NO",  SiteSalary(s, 5500), 16000, Mon20, 1, {}),
       Row("m8",  "Saints",      "DST", "NO",  "LV",  SiteSalary(s, 3200),  9000, Mon20, 1, {}),
       Row("m9",  "Murray",      "RB",  "NO",  "LV",  SiteSalary(s, 4000),  9500, Mon20, 1, {}),
       Row("m10", "Hilton",      "WR",  "IND", "TEN", SiteSalary(s, 5000), 17000, Thu20, 1, {}),
       Row("m11", "Minshew",     "QB",  "JAC", "MIA", SiteSalary(s, 5200), 21000, NextThu20, 2, {}),
       Row("m12", "Chark",       "WR",  "JAC", "MIA", SiteSalary(s, 5000), 20000, NextThu20, 2, {}),
       Row("m13", "Henry",       "RB",  "TEN", "HOU", SiteSalary(s, 6000), 25000, NextMon20, 2, {}) >>

(* The same roster with its last game moved to a third week. *)
ThreeWeekRoster(s) ==
    [TwoWeekRoster(s) EXCEPT ![13].week = 3, ![13].datetime = NextMon20 + 7 * 24]

SlateRosters(s) == {SundayRoster(s), TwoWeekRoster(s), ThreeWeekRoster(s)}

(* data[col].unique() *)
Unique(d, col) == {d[i][col] : i \in DOMAIN d}

(* data_frame_utils.col_contains_all_values *)
ColContainsAllValues(d, col, values) == \A val \in values : val \in Unique(d, col)

----------------------------------------------------------------------------
(* Constraints: src/dfs/constraints.py and src/dfs/nfl/constraints.py.     *)
(* A constraint is a record tagged with the name of its class.             *)

MaxSalaryCapConstraint(salary) ==
    [type |-> "MaxSalaryCapConstraint", salary |-> salary]

MinSalaryCapConstraint(salary) ==
    [type |-> "MinSalaryCapConstraint", salary |-> salary]

OnlyIncludeTeamsConstraint(teams) ==
    [type |-> "OnlyIncludeTeamsConstraint", teams |-> teams]

IncludePlayerConstraint(player, name_col) ==
    [type |-> "IncludePlayerConstraint", player |-> player, name_col |-> name_col]

ExcludePlayerConstraint(player, name_col) ==
    [type |-> "ExcludePlayerConstraint", player |-> player, name_col |-> name_col]

MaxPlayersFromTeamConstraint(maximum, team) ==
    [type |-> "MaxPlayersFromTeamConstraint", maximum |-> maximum, team |-> team]

MinPlayersFromTeamConstraint(minimum, team) ==
    [type |-> "MinPlayersFromTeamConstraint", minimum |-> minimum, team |-> team]

QbReceiverStackConstraint(team, position, num_receivers) ==
    [type |-> "QbReceiverStackConstraint", team |-> team, position |-> position,
     num_receivers |-> num_receivers]

RbDstStackConstraint(team) ==
    [type |-> "RbDstStackConstraint", team |-> team]

GameSlateConstraint(slate, num_players) ==
    [type |-> "GameSlateConstraint", slate |-> slate, num_players |-> num_players]

(* The verdict of is_valid: (True, None) or (False, message). *)
Valid == [ok |-> TRUE, message |-> None]

Invalid(message) == [ok |-> FALSE, message |-> message]

(* Each is_valid walks the list once and returns at the first constraint   *)
(* that conflicts; FirstHit is the position of that constraint, 0 if none. *)
FirstHit(cs, Hit(_)) ==
    LET hits == {i \in 1..Len(cs) : Hit(cs[i])} IN
    IF hits = {} THEN 0 ELSE SetMin(hits)

(* Variant: a max-salary bound that is never checked against the minimums. *)
MaxSalaryIsValidUnchecked(self, cs) == Valid

MaxSalaryIsValid(self, cs) ==
    LET Hit(c) == c.type = "MinSalaryCapConstraint" /\ c.salary > self.salary IN
    IF FirstHit(cs, Hit) = 0 THEN Valid
    ELSE Invalid("A min-salary constraint with value greater than this is already included.")

MinSalaryIsValid(self, cs) ==
    LET Hit(c) == c.type = "MaxSalaryCapConstraint" /\ c.salary < self.salary IN
    IF FirstHit(cs, Hit) = 0 THEN Valid
    ELSE Invalid("A max-salary constraint with value less than this is already included.")

(* Variant: an inclusion list rejected as soon as one of its teams is        *)
(* excluded.                                                               *)
OnlyIncludeTeamsIsValidAny(self, cs) ==
    IF \E k \in Range(self.teams) : \E i \in 1..Len(cs) :
            /\ cs[i].type = "MaxPlayersFromTeamConstraint"
            /\ cs[i].team = k
            /\ cs[i].maximum = 0
    THEN Invalid("All teams on the list to include are already excluded")
    ELSE Valid

OnlyIncludeTeamsIsValid(self, cs) ==
    LET keys == Range(self.teams)
        excluded == [k \in keys |->
                        \E i \in 1..Len(cs) :
                            /\ cs[i].type = "MaxPlayersFromTeamConstraint"
                            /\ cs[i].team = k
                            /\ cs[i].maximum = 0]
    IN IF \A k \in keys : excluded[k]
       THEN Invalid("All teams on the list to include are already excluded")
       ELSE Valid

IncludePlayerIsValid(self, cs) ==
    LET Hit(c) == c.type = "ExcludePlayerConstraint" /\ self.player = c.player IN
    IF FirstHit(cs, Hit) = 0 THEN Valid
    ELSE Invalid("This player is already set to be excluded from lineup")

(* Variant: an exclusion that is never checked against the inclusions. *)
ExcludePlayerIsValidUnchecked(self, cs) == Valid

ExcludePlayerIsValid(self, cs) ==
    LET Hit(c) == c.type = "IncludePlayerConstraint" /\ self.player = c.player IN
    IF FirstHit(cs, Hit) = 0 THEN Valid
    ELSE Invalid("This player is already set to be included in lineup")

(* Variant: a maximum below two is also checked against the stacks of its  *)
(* team.                                                                   *)
MaxPlayersFromTeamIsValidAgainstStacks(self, cs) ==
    LET Same(c) == c.type = "MaxPlayersFromTeamConstraint" /\ c.team = self.team
        Above(c) == /\ c.type = "MinPlayersFromTeamConstraint"
                    /\ c.team = self.team
                    /\ c.minimum > self.maximum
        Stacked(c) == /\ c.type \in {"QbReceiverStackConstraint", "RbDstStackConstraint"}
                      /\ c.team = self.team
                      /\ self.maximum < 2
        Hit(c) == Same(c) \/ Above(c) \/ Stacked(c)
        i == FirstHit(cs, Hit)
    IN IF i = 0 THEN Valid
       ELSE IF Same(cs[i]) THEN Invalid("Max players from this team already set")
       ELSE Invalid("Min players from this team already set to a value greater than this maximum")

MaxPlayersFromTeamIsValid(self, cs) ==
    LET Same(c) == c.type = "MaxPlayersFromTeamConstraint" /\ c.team = self.team
        Above(c) == /\ c.type = "MinPlayersFromTeamConstraint"
                    /\ c.team = self.team
                    /\ c.minimum > self.maximum
        Hit(c) == Same(c) \/ Above(c)
        i == FirstHit(cs, Hit)
    IN IF i = 0 THEN Valid
       ELSE IF Same(cs[i]) THEN Invalid("Max players from this team already set")
       ELSE Invalid("Min players from this team already set to a value greater than this maximum")

(* Variant: a minimum checked against the other minimums only, not against *)
(* the maximum of its team.                                                *)
MinPlayersFromTeamIsValidSameOnly(self, cs) ==
    IF \E i \in 1..Len(cs) :
            cs[i].type = "MinPlayersFromTeamConstraint" /\ cs[i].team = self.team
    THEN Invalid("Min players from this team already set")
    ELSE Valid

MinPlayersFromTeamIsValid(self, cs) ==
    LET Same(c) == c.type = "MinPlayersFromTeamConstraint" /\ c.team = self.team
        Below(c) == /\ c.type = "MaxPlayersFromTeamConstraint"
                    /\ c.team = self.team
                    /\ c.maximum < self.minimum
        Hit(c) == Same(c) \/ Below(c)
        i == FirstHit(cs, Hit)
    IN IF i = 0 THEN Valid
       ELSE IF Same(cs[i]) THEN Invalid("Min players from this team already set")
       ELSE Invalid("Max players from this team already set to a value less than this minimum")

(* Variant: a QB/receiver stack that only conflicts with a stack of its own *)
(* team.                                                                   *)
QbReceiverStackIsValidSameTeam(self, cs) ==
    IF \E i \in 1..Len(cs) :
            cs[i].type = "QbReceiverStackConstraint" /\ cs[i].team = self.team
    THEN Invalid("A QB/receiver stack is already included for this lineup")
    ELSE IF \E i \in 1..Len(cs) :
            /\ cs[i].type = "MaxPlayersFromTeamConstraint"
            /\ cs[i].team = self.team
            /\ cs[i].maximum < 2
    THEN Invalid("Max players from team is already set below two")
    ELSE Valid

(* Variant: the maximum of the team is compared with the quarterback and   *)
(* the receivers the stack asks for.                                       *)
QbReceiverStackIsValidForCount(self, cs) ==
    LET Same(c) == c.type = "QbReceiverStackConstraint"
        Capped(c) == /\ c.type = "MaxPlayersFromTeamConstraint"
                     /\ c.team = self.team
                     /\ c.maximum < 1 + (IF IsNoneInt(self.num_receivers) THEN 1
                                          ELSE IntOf(self.num_receivers))
        Hit(c) == Same(c) \/ Capped(c)
        i == FirstHit(cs, Hit)
    IN IF i = 0 THEN Valid
       ELSE IF Same(cs[i]) THEN Invalid("A QB/receiver stack is already included for this lineup")
       ELSE Invalid(<<"Max players from", self.team, "is already set to", cs[i].maximum>>)

QbReceiverStackIsValid(self, cs) ==
    LET Same(c) == c.type = "QbReceiverStackConstraint"
        Capped(c) == /\ c.type = "MaxPlayersFromTeamConstraint"
                     /\ c.team = self.team
                     /\ c.maximum < 2
        Hit(c) == Same(c) \/ Capped(c)
        i == FirstHit(cs, Hit)
    IN IF i = 0 THEN Valid
       ELSE IF Same(cs[i]) THEN Invalid("A QB/receiver stack is already included for this lineup")
       ELSE Invalid(<<"Max players from", self.team, "is already set to", cs[i].maximum>>)

RbDstStackIsValid(self, cs) ==
    LET Same(c) == c.type = "RbDstStackConstraint"
        Capped(c) == /\ c.type = "MaxPlayersFromTeamConstraint"
                     /\ c.team = self.team
                     /\ c.maximum < 2
        Hit(c) == Same(c) \/ Capped(c)
        i == FirstHit(cs, Hit)
    IN IF i = 0 THEN Valid
       ELSE IF Same(cs[i]) THEN Invalid("An RB/DST stack constraint is already included for this lineup")
       ELSE Invalid(<<"Max players from", self.team, "is already set to", cs[i].maximum>>)

(* Variant: only a slate of the same name conflicts. *)
GameSlateIsValidSameSlateOnly(self, cs) ==
    LET Hit(c) == c.type = "GameSlateConstraint" /\ c.slate = self.slate IN
    IF FirstHit(cs, Hit) = 0 THEN Valid
    ELSE Invalid("Optimizer already includes a game slate-related constraint")

GameSlateIsValid(self, cs) ==
    LET Hit(c) == c.type = "GameSlateConstraint" IN
    IF FirstHit(cs, Hit) = 0 THEN Valid
    ELSE Invalid("Optimizer already includes a game slate-related constraint")

(* constraint.is_valid(self._constraints): dispatch on the class. *)
IsValid(c, cs) ==
    CASE c.type = "MaxSalaryCapConstraint" -> MaxSalaryIsValid(c, cs)
      [] c.type = "MinSalaryCapConstraint" -> MinSalaryIsValid(c, cs)
      [] c.type = "OnlyIncludeTeamsConstraint" -> OnlyIncludeTeamsIsValid(c, cs)
      [] c.type = "IncludePlayerConstraint" -> IncludePlayerIsValid(c, cs)
      [] c.type = "ExcludePlayerConstraint" -> ExcludePlayerIsValid(c, cs)
      [] c.type = "MaxPlayersFromTeamConstraint" -> MaxPlayersFromTeamIsValid(c, cs)
      [] c.type = "MinPlayersFromTeamConstraint" -> MinPlayersFromTeamIsValid(c, cs)
      [] c.type = "QbReceiverStackConstraint" -> QbReceiverStackIsValid(c, cs)
      [] c.type = "RbDstStackConstraint" -> RbDstStackIsValid(c, cs)
      [] c.type = "GameSlateConstraint" -> GameSlateIsValid(c, cs)

----------------------------------------------------------------------------
(* Game slates: src/dfs/nfl/slate.py *)

Weekday(dt) == (dt \div 24) % 7

Hour(dt) == dt % 24

SlateNames == {"sunday", "sunday_and_monday", "sunday_early",
               "sunday_early_and_late", "monday", "monday_and_thursday"}

(* data[week_col].unique(): the distinct weeks in order of first appearance *)
RECURSIVE WeeksFrom(_, _, _)
WeeksFrom(d, i, acc) ==
    IF i > SetMax(DOMAIN d \cup {0}) THEN acc
    ELSE IF i \in DOMAIN d /\ d[i].week \notin Range(acc)
         THEN WeeksFrom(d, i + 1, Append(acc, d[i].week))
         ELSE WeeksFrom(d, i + 1, acc)

Weeks(d) == WeeksFrom(d, 1, << >>)

(* In the Monday/Thursday slate the first disjunct compares the bound      *)
(* method row[label].weekday (not its result) with 0, which is False for   *)
(* every row.                                                              *)
FilterFunction(slate, row, weeks) ==
    CASE slate = "all" -> TRUE
      [] slate = "sunday" -> Weekday(row.datetime) = 6
      [] slate = "sunday_and_monday" -> Weekday(row.datetime) \in {0, 6}
      [] slate = "sunday_early" -> Weekday(row.datetime) = 6 /\ Hour(row.datetime) = 13
      [] slate = "sunday_early_and_late" ->
            Weekday(row.datetime) = 6 /\ Hour(row.datetime) \in {13, 16}
      [] slate = "monday" -> Weekday(row.datetime) = 0
      [] slate = "monday_and_thursday" ->
            \/ (row.week = weeks[1] /\ FALSE)
            \/ (row.week = weeks[2] /\ Weekday(row.datetime) = 3)

----------------------------------------------------------------------------
(* Emission: the apply methods.  A linear expression over the selection    *)
(* variables is a record: `terms` maps the index label of each row whose   *)
(* variable occurs to its coefficient, `sense` is the comparison and `rhs` *)
(* the bound.                                                              *)

Expr(terms, sense, rhs) == [terms |-> terms, sense |-> sense, rhs |-> rhs]

(* lpSum(data[filter]['LpVariable']) *)
CountOf(d, Keep(_)) == [i \in {j \in DOMAIN d : Keep(d[j])} |-> 1]

(* lpSum(data[col] * data['LpVariable']) *)
Weighted(d, col) == [i \in DOMAIN d |-> d[i][col]]

LineupSizeApply(size, d) ==
    LET All(r) == TRUE IN << Expr(CountOf(d, All), "==", size) >>

MaxSalaryApply(self, d) == << Expr(Weighted(d, "salary"), "<=", self.salary) >>

MinSalaryApply(self, d) == << Expr(Weighted(d, "salary"), ">=", self.salary) >>

OnlyIncludeTeamsApply(self, d) ==
    LET Keep(r) == r.team \notin Range(self.teams) IN
    << Expr(CountOf(d, Keep), "==", 0) >>

IncludePlayerApply(self, d) ==
    LET Keep(r) == r[self.name_col] = self.player IN
    << Expr(CountOf(d, Keep), ">=", 1) >>

ExcludePlayerApply(self, d) ==
    LET Keep(r) == r[self.name_col] = self.player IN
    << Expr(CountOf(d, Keep), "==", 0) >>

MaxPlayersFromTeamApply(self, d) ==
    LET Keep(r) == r.team = self.team IN
    << Expr(CountOf(d, Keep), "<=", self.maximum) >>

MinPlayersFromTeamApply(self, d) ==
    LET Keep(r) == r.team = self.team IN
    << Expr(CountOf(d, Keep), ">=", self.minimum) >>

(* Variant: the receivers without the quarterback. *)
QbReceiverStackApplyReceiversOnly(self, d) ==
    LET positions == IF self.position # None THEN {self.position} ELSE {WR, TE}
        n == IF IsNoneInt(self.num_receivers) THEN 1 ELSE IntOf(self.num_receivers)
        IsReceiver(r) == r.team = self.team /\ r.position \in positions
    IN << Expr(CountOf(d, IsReceiver), ">=", n) >>

QbReceiverStackApply(self, d) ==
    LET positions == IF self.position # None THEN {self.position} ELSE {WR, TE}
        n == IF IsNoneInt(self.num_receivers) THEN 1 ELSE IntOf(self.num_receivers)
        IsQb(r) == r.team = self.team /\ r.position = QB
        IsReceiver(r) == r.team = self.team /\ r.position \in positions
    IN << Expr(CountOf(d, IsQb), ">=", 1), Expr(CountOf(d, IsReceiver), ">=", n) >>

RbDstStackApply(self, d) ==
    LET IsRb(r) == r.team = self.team /\ r.position = RB
        IsDst(r) == r.team = self.team /\ r.position = DST
    IN << Expr(CountOf(d, IsRb), ">=", 1), Expr(CountOf(d, IsDst), "==", 1) >>

(* Variant: some player of the slate rather than every player. *)
GameSlateApplyAtLeastOne(self, d) ==
    LET weeks == Weeks(d)
        Keep(r) == FilterFunction(self.slate, r, weeks)
    IN << Expr(CountOf(d, Keep), ">=", 1) >>

GameSlateApply(self, d) ==
    LET weeks == Weeks(d)
        Keep(r) == FilterFunction(self.slate, r, weeks)
    IN << Expr(CountOf(d, Keep), "==", self.num_players) >>

Apply(c, d) ==
    CASE c.type = "MaxSalaryCapConstraint" -> MaxSalaryApply(c, d)
      [] c.type = "MinSalaryCapConstraint" -> MinSalaryApply(c, d)
      [] c.type = "OnlyIncludeTeamsConstraint" -> OnlyIncludeTeamsApply(c, d)
      [] c.type = "IncludePlayerConstraint" -> IncludePlayerApply(c, d)
      [] c.type = "ExcludePlayerConstraint" -> ExcludePlayerApply(c, d)
      [] c.type = "MaxPlayersFromTeamConstraint" -> MaxPlayersFromTeamApply(c, d)
      [] c.type = "MinPlayersFromTeamConstraint" -> MinPlayersFromTeamApply(c, d)
      [] c.type = "QbReceiverStackConstraint" -> QbReceiverStackApply(c, d)
      [] c.type = "RbDstStackConstraint" -> RbDstStackApply(c, d)
      [] c.type = "GameSlateConstraint" -> GameSlateApply(c, d)

----------------------------------------------------------------------------
(* Model building: LineupOptimizer.optimize_lineup, lines 541-553 *)

(* The 'LpVariable' column of the data frame: absent until the first solve, *)
(* then one variable per row; `ones` are the rows whose varValue is 1      *)
(* once the solver has found an optimum (`solved`).  The values a solver   *)
(* leaves behind when it ends without an optimum are not represented.      *)
NoLpVariable == [present |-> FALSE, solved |-> FALSE, ones |-> {}]

(* Variant: a row whose variable the last solve set to 1 gets no new one. *)
LpVariablesOfUnselected(d, column) == DOMAIN d \ column.ones

(* Line 541: one new binary variable per row of the data frame, named by   *)
(* the position and the index label of the row; the column is assigned as  *)
(* a whole, whatever it held.                                              *)
LpVariables(d, column) == DOMAIN d

(* The two bounds of each position, in the order the positions are visited *)
RECURSIVE PositionBounds(_, _, _)
PositionBounds(d, s, k) ==
    IF k > Len(PositionOrder) THEN << >>
    ELSE LET pos == PositionOrder[k]
             v == PositionConstraints(s)[pos]
             AtPos(r) == r.position = pos
         IN << Expr(CountOf(d, AtPos), ">=", v[1]),
               Expr(CountOf(d, AtPos), "<=", v[2]) >> \o PositionBounds(d, s, k + 1)

RECURSIVE UserConstraints(_, _, _)
UserConstraints(d, cs, k) ==
    IF k > Len(cs) THEN << >>
    ELSE Apply(cs[k], d) \o UserConstraints(d, cs, k + 1)

(* Variant: the problem of a site without the cap of the site. *)
SiteConstraintsWithoutCap(d, s) ==
    PositionBounds(d, s, 1) \o LineupSizeApply(NumPlayers(s), d)

(* The constraints that every problem of a site starts with. *)
SiteConstraints(d, s) ==
    PositionBounds(d, s, 1)
        \o LineupSizeApply(NumPlayers(s), d)
        \o MaxSalaryApply(MaxSalaryCapConstraint(SalaryCap(s)), d)

(* Variant: an objective that weighs the players by salary. *)
ObjectiveBySalary(d) == Weighted(d, "salary")

Objective(d) == Weighted(d, "points")

LpProblem(d, s, cs, column) ==
    [name |-> s,
     sense |-> "LpMaximize",
     variables |-> LpVariables(d, column),
     objective |-> Objective(d),
     constraints |-> SiteConstraints(d, s) \o UserConstraints(d, cs, 1)]

----------------------------------------------------------------------------
(* The solver, by its contract.  An assignment is the set of variables     *)
(* whose value is 1.                                                       *)

RECURSIVE SumOver(_, _)
SumOver(f, S) ==
    IF S = {} THEN 0
    ELSE LET i == CHOOSE j \in S : TRUE IN f[i] + SumOver(f, S \ {i})

Value(terms, assignment) == SumOver(terms, DOMAIN terms \cap assignment)

Holds(e, assignment) ==
    LET v == Value(e.terms, assignment) IN
    CASE e.sense = "==" -> v = e.rhs
      [] e.sense = "<=" -> v <= e.rhs
      [] e.sense = ">=" -> v >= e.rhs

(* The candidates that satisfy every expression of es (the outer set       *)
(* constructor only makes TLC enumerate the result once).                  *)
Satisfying(candidates, es) ==
    {b : b \in {a \in candidates : \A k \in 1..Len(es) : Holds(es[k], a)}}

(* The assignments satisfying the constraints every problem of a site      *)
(* starts with are computed once per site and reused by Feasible.          *)
KnownPrefixes == {SiteConstraints(Construct(RawRoster(s)), s) : s \in Sites}

Presolved ==
    {<<es, Satisfying(SUBSET (DOMAIN es[Len(es)].terms), es)>> : es \in KnownPrefixes}

SlatePrefixes ==
    UNION {{SiteConstraints(Construct(raw), s) : raw \in SlateRosters(s)} : s \in Sites}

PresolvedSlates ==
    {<<es, Satisfying(SUBSET (DOMAIN es[Len(es)].terms), es)>> : es \in SlatePrefixes}

Feasible(problem) ==
    LET es == problem.constraints
        n == 2 * Len(PositionOrder) + 2
        head == SubSeq(es, 1, n)
        known == Len(es) >= n /\ DOMAIN es[n].terms = problem.variables
    IN IF known /\ head \in KnownPrefixes
       THEN Satisfying((CHOOSE p \in Presolved : p[1] = head)[2],
                       SubSeq(es, n + 1, Len(es)))
       ELSE IF known /\ head \in SlatePrefixes
       THEN Satisfying((CHOOSE p \in PresolvedSlates : p[1] = head)[2],
                       SubSeq(es, n + 1, Len(es)))
       ELSE Satisfying(SUBSET problem.variables, es)

(* The assignments the solver may report as optimal. *)
Optimal(problem) ==
    LET feasible == Feasible(problem)
        value == [a \in feasible |-> Value(problem.objective, a)]
        best == SetMax({value[a] : a \in feasible})
    IN IF feasible = {} THEN {}
       ELSE {a \in feasible : value[a] = best}

(* The statuses of pulp.LpStatus with which the solver ends without a      *)
(* solution whatever the problem is (it was stopped, or could not tell).   *)
FailureStatuses == {"Not Solved", "Unbounded", "Undefined"}

(* problem.solve(): the outcomes the solver may produce. *)
Solve(problem) ==
    LET best == Optimal(problem) IN
    (IF best = {} THEN {[status |-> "Infeasible", assignment |-> {}]}
     ELSE {[status |-> "Optimal", assignment |-> a] : a \in best})
        \cup {[status |-> s, assignment |-> {}] : s \in FailureStatuses}

(* Variant: anything but an infeasible problem counts as solved. *)
IsOptimalSolutionFoundUnlessInfeasible(outcome) == outcome.status # "Infeasible"

(* pulp_utils.is_optimal_solution_found *)
IsOptimalSolutionFound(outcome) == outcome.status = "Optimal"

----------------------------------------------------------------------------
(* Lineup reconstruction: OptimizedLineup.__init__ *)

(* round(x, 2) of a value in thousandths, in hundredths (ties to even) *)
Round2(x) ==
    LET q == x \div 10
        r == x % 10
    IN IF r < 5 THEN q
       ELSE IF r > 5 THEN q + 1
       ELSE IF q % 2 = 0 THEN q ELSE q + 1

(* sorted(rows, key): the index labels in S ordered by key (a function on  *)
(* S), rows with equal keys keeping their order in the frame (the sort is  *)
(* stable).                                                                *)
RECURSIVE SortedBy(_, _)
SortedBy(S, key) ==
    IF S = {} THEN << >>
    ELSE LET first == CHOOSE i \in S :
                        \A j \in S : key[i] < key[j] \/ (key[i] = key[j] /\ i <= j)
         IN << first >> \o SortedBy(S \ {first}, key)

(* Variant: only the running backs are looked at. *)
FlexPositionRbOnly(d, s, selected) ==
    LET count == [p \in {RB, WR, TE} |-> Cardinality({i \in selected : d[i].position = p})]
        Full(p) == count[p] = PositionConstraints(s)[p][2]
    IN IF Full(RB) THEN RB ELSE None

(* The position whose player takes the flex slot: the first of RB, WR, TE  *)
(* whose selected count equals the maximum of the position; None if there  *)
(* is none.                                                                *)
FlexPosition(d, s, selected) ==
    LET count == [p \in {RB, WR, TE} |-> Cardinality({i \in selected : d[i].position = p})]
        Full(p) == count[p] = PositionConstraints(s)[p][2]
    IN IF Full(RB) THEN RB ELSE IF Full(WR) THEN WR ELSE IF Full(TE) THEN TE ELSE None

(* Variant: the first of the players sorted by datetime takes the slot. *)
FlexPlayerEarliest(d, s, selected) ==
    LET position == FlexPosition(d, s, selected)
        players_for_position ==
            SortedBy({i \in selected : d[i].position = position},
                     [i \in selected |-> d[i].datetime])
    IN IF position = None THEN 0
       ELSE players_for_position[1]

(* The row relabelled FLEX: the last of the players of the flex position   *)
(* once sorted by datetime; 0 if no position is full.                      *)
FlexPlayer(d, s, selected) ==
    LET position == FlexPosition(d, s, selected)
        players_for_position ==
            SortedBy({i \in selected : d[i].position = position},
                     [i \in selected |-> d[i].datetime])
    IN IF position = None THEN 0
       ELSE players_for_position[Len(players_for_position)]

OptimizedLineup(d, s, assignment) ==
    LET selected == {i \in DOMAIN d : i \in assignment}
        flex == FlexPlayer(d, s, selected)
        LineupPosition(i) == IF i = flex THEN FLEX ELSE d[i].position
        order == SortedBy(selected, [i \in selected |-> ORDER_DICT[LineupPosition(i)]])
    IN [site |-> s,
        points |-> Round2(SumOver(Weighted(d, "points"), selected)),
        salary |-> SumOver(Weighted(d, "salary"), selected),
        salary_cap |-> SalaryCap(s),
        players |-> [k \in 1..Len(order) |->
                        [index |-> order[k], lineup_position |-> LineupPosition(order[k])]]]

----------------------------------------------------------------------------
(* What a call returns or raises *)

ReturnsNone == [kind |-> "None"]

Raises(kind, message) == [kind |-> kind, message |-> message]

Returns(lineup) == [kind |-> "OptimizedLineup", lineup |-> lineup]

Outcome(cs, r) == [constraints |-> cs, ret |-> r]

LpVariableColumn(solved) ==
    [present |-> TRUE,
     solved |-> solved.status = "Optimal",
     ones |-> IF solved.status = "Optimal" THEN solved.assignment ELSE {}]

(* The outcome of a call that went through problem.solve() *)
Solved(cs, r, solved) ==
    [constraints |-> cs, ret |-> r, status |-> solved.status,
     lpVariable |-> LpVariableColumn(solved)]

(* Variant: a constraint appended whatever is_valid says. *)
AddConstraintUnchecked(c, cs) ==
    LET verdict == IsValid(c, cs) IN
    Outcome(Append(cs, c),
            IF verdict.ok THEN ReturnsNone
            ELSE Raises("InvalidConstraintException", verdict.message))

(* LineupOptimizer._add_constraint *)
AddConstraint(c, cs) ==
    LET verdict == IsValid(c, cs) IN
    IF verdict.ok THEN Outcome(Append(cs, c), ReturnsNone)
    ELSE Outcome(cs, Raises("InvalidConstraintException", verdict.message))

----------------------------------------------------------------------------
(* The public methods, as functions of their arguments, the data frame d,  *)
(* the site s and the constraint list cs.  Each yields the constraint list *)
(* the call leaves behind and what the call returns or raises.             *)

SetOnlyIncludeTeamsOutcome(teams, cs) ==
    IF Len(teams) = 0
    THEN Outcome(cs, Raises("ValueError", "Included teams must not be none or empty"))
    ELSE AddConstraint(OnlyIncludeTeamsConstraint(teams), cs)

SetMaxPlayersFromTeamOutcome(n, team, d, cs) ==
    IF n < 0
    THEN Outcome(cs, Raises("ValueError", "Invalid maximum players"))
    ELSE IF team = None \/ team \notin Unique(d, "team")
    THEN Outcome(cs, Raises("ValueError", "Invalid team name"))
    ELSE AddConstraint(MaxPlayersFromTeamConstraint(n, team), cs)

SetMinPlayersFromTeamOutcome(n, team, d, s, cs) ==
    IF n > NumPlayers(s)
    THEN Outcome(cs, Raises("ValueError", "Invalid minimum number of players"))
    ELSE IF team = None \/ team \notin Unique(d, "team")
    THEN Outcome(cs, Raises("ValueError", "Invalid team name"))
    ELSE IF n = 0
    THEN Outcome(cs, ReturnsNone)
    ELSE AddConstraint(MinPlayersFromTeamConstraint(n, team), cs)

(* for team in teams: self.set_max_players_from_team(n=0, team=team); the  *)
(* first call that raises ends the loop with what has been added so far.   *)
RECURSIVE ExcludeTeamsFrom(_, _, _, _)
ExcludeTeamsFrom(teams, k, d, cs) ==
    IF k > Len(teams) THEN Outcome(cs, ReturnsNone)
    ELSE LET one == SetMaxPlayersFromTeamOutcome(0, teams[k], d, cs) IN
         IF one.ret.kind # "None" THEN one
         ELSE ExcludeTeamsFrom(teams, k + 1, d, one.constraints)

SetExcludeTeamsOutcome(teams, d, cs) ==
    IF Len(teams) = 0
    THEN Outcome(cs, Raises("ValueError", "Teams to exclude must not be none or empty"))
    ELSE ExcludeTeamsFrom(teams, 1, d, cs)

SetMustIncludeTeamOutcome(team, d, s, cs) ==
    SetMinPlayersFromTeamOutcome(1, team, d, s, cs)

(* by is "name" or "id"; the optimizers of this model are built with an id *)
(* column.                                                                 *)
SetMustIncludePlayerOutcome(by, key, d, cs) ==
    IF key = None \/ key \notin Unique(d, by)
    THEN Outcome(cs, Raises("ValueError", "not found in data frame"))
    ELSE AddConstraint(IncludePlayerConstraint(key, by), cs)

SetExcludePlayerOutcome(by, key, d, cs) ==
    IF key = None \/ key \notin Unique(d, by)
    THEN Outcome(cs, Raises("ValueError", "not found in data frame"))
    ELSE AddConstraint(ExcludePlayerConstraint(key, by), cs)

(* Variant: set_num_players_from_team without the pop of line 430. *)
SetNumPlayersFromTeamWithoutPop(n, team, d, s, cs) ==
    IF n > NumPlayers(s)
    THEN Outcome(cs, Raises("ValueError", "Invalid number of players"))
    ELSE IF team = None \/ team \notin Unique(d, "team")
    THEN Outcome(cs, Raises("ValueError", "Invalid team name"))
    ELSE LET first == AddConstraint(MaxPlayersFromTeamConstraint(n, team), cs) IN
         IF first.ret.kind # "None" THEN first
         ELSE LET second == AddConstraint(MinPlayersFromTeamConstraint(n, team),
                                          first.constraints)
              IN second

SetNumPlayersFromTeamOutcome(n, team, d, s, cs) ==
    IF n > NumPlayers(s)
    THEN Outcome(cs, Raises("ValueError", "Invalid number of players"))
    ELSE IF team = None \/ team \notin Unique(d, "team")
    THEN Outcome(cs, Raises("ValueError", "Invalid team name"))
    ELSE LET first == AddConstraint(MaxPlayersFromTeamConstraint(n, team), cs) IN
         IF first.ret.kind # "None" THEN first
         ELSE LET second == AddConstraint(MinPlayersFromTeamConstraint(n, team),
                                          first.constraints)
              IN IF second.ret.kind = "InvalidConstraintException"
                 THEN Outcome(SubSeq(second.constraints, 1, Len(second.constraints) - 1),
                              second.ret)
                 ELSE second

SetMaxSalaryOutcome(n, cs) ==
    IF n <= 0
    THEN Outcome(cs, Raises("ValueError", "Invalid maximum"))
    ELSE AddConstraint(MaxSalaryCapConstraint(n), cs)

SetMinSalaryOutcome(n, s, cs) ==
    IF n > SalaryCap(s)
    THEN Outcome(cs, Raises("ValueError", "Invalid minimum"))
    ELSE AddConstraint(MinSalaryCapConstraint(n), cs)

SetGameSlateOutcome(slate, s, cs) ==
    AddConstraint(GameSlateConstraint(slate, NumPlayers(s)), cs)

(* Variant: the Monday/Thursday setter without its check of the weeks. *)
SetNflGameSlateUnchecked(slate, d, s, cs) == SetGameSlateOutcome(slate, s, cs)

(* NflLineupOptimizer.set_game_slate_<slate> *)
SetNflGameSlateOutcome(slate, d, s, cs) ==
    IF slate = "monday_and_thursday" /\ Len(Weeks(d)) # 2
    THEN Outcome(cs, Raises("ValueError",
                            "DataFrame must contain two weeks in order to use Monday/Thursday slate"))
    ELSE SetGameSlateOutcome(slate, s, cs)

(* Variant: the constraint is validated against the set before the        *)
(* arguments are checked.                                                  *)
SetQbReceiverStackValidatingFirst(team, position, num_receivers, d, cs) ==
    LET added == AddConstraint(QbReceiverStackConstraint(team, position, num_receivers), cs) IN
    IF team \notin Unique(d, "team")
    THEN Outcome(cs, Raises("ValueError", "Invalid team name"))
    ELSE IF added.ret.kind = "InvalidConstraintException"
    THEN added
    ELSE IF position # None /\ ~IsNoneInt(num_receivers)
    THEN Outcome(cs, Raises("ValueError", "Both of position and num_receivers cannot be provided"))
    ELSE IF position # None /\ position \notin {"WR", "TE"}
    THEN Outcome(cs, Raises("ValueError", "The provided position is not valid"))
    ELSE added

SetQbReceiverStackOutcome(team, position, num_receivers, d, cs) ==
    IF team \notin Unique(d, "team")
    THEN Outcome(cs, Raises("ValueError", "Invalid team name"))
    ELSE IF position # None /\ ~IsNoneInt(num_receivers)
    THEN Outcome(cs, Raises("ValueError", "Both of position and num_receivers cannot be provided"))
    ELSE IF position # None /\ position \notin {"WR", "TE"}
    THEN Outcome(cs, Raises("ValueError", "The provided position is not valid"))
    ELSE AddConstraint(QbReceiverStackConstraint(team, position, num_receivers), cs)

SetRbDstStackOutcome(team, d, cs) ==
    IF team = None \/ team \notin Unique(d, "team")
    THEN Outcome(cs, Raises("ValueError", "Invalid team name"))
    ELSE AddConstraint(RbDstStackConstraint(team), cs)

(* Variant: the list is kept. *)
ClearConstraintsKeeping(cs) == Outcome(cs, ReturnsNone)

ClearConstraintsOutcome(cs) == Outcome(<< >>, ReturnsNone)

(* optimize_lineup: the outcomes it may have, one per outcome of the solver *)
(* Files.  A path is the tuple of its characters; the file_path argument   *)
(* is << >> for None and <<path>> for a path.  A file is whether it exists *)
(* and its lines; a line is the header with the field names or the row of  *)
(* a player.                                                               *)
ACsv == <<"a", ".", "c", "s", "v">>
AUpperCsv == <<"a", ".", "C", "S", "V">>
OldCsv == <<"o", ".", "c", "s", "v">>
ATxt == <<"a", ".", "t", "x", "t">>
ACsvTxt == <<"a", ".", "c", "s", "v", ".", "t", "x", "t">>
NoDot == <<"a", "c", "s", "v">>
DotCsv == <<".", "c", "s", "v">>
EmptyPath == << >>

Paths == {ACsv, AUpperCsv, OldCsv, ATxt, ACsvTxt, NoDot, DotCsv, EmptyPath}

NoFile == [exists |-> FALSE, lines |-> << >>]

(* str.lower, on the characters of the paths *)
Lower(c) ==
    CASE c = "C" -> "c"
      [] c = "S" -> "s"
      [] c = "V" -> "v"
      [] OTHER -> c

(* os.path.splitext(path)[1]: from the last dot on, unless only dots come  *)
(* before it                                                               *)
SplitExt(path) ==
    LET dots == {k \in DOMAIN path : path[k] = "."} IN
    IF dots = {} THEN << >>
    ELSE LET last == SetMax(dots) IN
         IF \A k \in 1..(last - 1) : path[k] = "." THEN << >>
         ELSE SubSeq(path, last, Len(path))

(* file_utils.get_extension, for a path that is not '' *)
GetExtension(path) ==
    LET ext == SelectSeq(SplitExt(path), LAMBDA c : c # ".") IN
    [k \in DOMAIN ext |-> Lower(ext[k])]

(* file_utils.file_exists *)
FileExists(fs, path) == fs[path].exists

(* dir(player): the names LineupPlayer.__dir__ gives, sorted *)
FieldNames == <<"datetime", "name", "opponent", "points", "position", "salary", "team">>

(* DictWriter.writeheader *)
HeaderLine == [header |-> TRUE, fieldnames |-> FieldNames]

(* DictWriter.writerows: one row per player of the lineup, in its order *)
PlayerLines(d, lineup) ==
    [k \in DOMAIN lineup.players |->
        LET player == d[lineup.players[k].index] IN
        [header |-> FALSE,
         datetime |-> player.datetime,
         name |-> player.name,
         opponent |-> player.opponent,
         points |-> player.points,
         position |-> player.position,
         salary |-> player.salary,
         team |-> player.team]]

(* Variant: every write begins with the header. *)
WriteToFileWithHeader(d, lineup, file_path, fs) ==
    IF file_path = << >>
    THEN [files |-> fs, ret |-> Raises("ValueError", "File path cannot be none")]
    ELSE LET path == file_path[1] IN
         IF path = EmptyPath
         THEN [files |-> fs, ret |-> Raises("ValueError", "File path cannot be none or empty")]
         ELSE IF GetExtension(path) # <<"c", "s", "v">>
         THEN [files |-> fs, ret |-> Raises("ValueError", "Only CSV output is supported")]
         ELSE [files |-> [fs EXCEPT ![path] =
                             [exists |-> TRUE,
                              lines |-> @.lines \o <<HeaderLine>> \o PlayerLines(d, lineup)]],
               ret |-> ReturnsNone]

(* OptimizedLineup.write_to_file(file_path): the files afterwards and what *)
(* the call returned or raised                                             *)
WriteToFileOutcome(d, lineup, file_path, fs) ==
    IF file_path = << >>
    THEN [files |-> fs, ret |-> Raises("ValueError", "File path cannot be none")]
    ELSE LET path == file_path[1] IN
         IF path = EmptyPath
         THEN [files |-> fs, ret |-> Raises("ValueError", "File path cannot be none or empty")]
         ELSE IF GetExtension(path) # <<"c", "s", "v">>
         THEN [files |-> fs, ret |-> Raises("ValueError", "Only CSV output is supported")]
         ELSE LET file_exists == FileExists(fs, path)
                  header == IF file_exists THEN << >> ELSE <<HeaderLine>>
              IN [files |-> [fs EXCEPT ![path] =
                                [exists |-> TRUE,
                                 lines |-> @.lines \o header \o PlayerLines(d, lineup)]],
                  ret |-> ReturnsNone]

(* An optimizer that does not exist (yet) *)
NoOptimizer == [data |-> << >>, constraints |-> << >>, lpVariable |-> NoLpVariable]

(* Variant: the five columns a lineup cannot do without. *)
RequiredColumnsMinimal == {"name", "position", "points", "salary", "team"}

(* Lines 214-223: the columns __init__ looks for. *)
RequiredColumns ==
    {"name", "position", "year", "week", "points", "salary", "team", "opponent",
     "is_home", "datetime"}

(* Variant: the optimizer works on the data frame it was given. *)
DataSourceItself(t) == [frame |-> t, aliased |-> TRUE]

(* Line 201: self._data = data_source.copy() *)
DataSourceCopy(t) == [frame |-> t, aliased |-> FALSE]

(* LineupOptimizer.__init__ with a data frame and an id column (None or a  *)
(* column name), the other column names at their defaults: the table of    *)
(* the caller afterwards, the data frame of the optimizer, and what the    *)
(* call returned or raised.  Normalising the positions and dropna are done *)
(* in place on self._data; the salary filter binds self._data to a new     *)
(* frame.                                                                  *)
InitOutcome(t, id_col) ==
    LET source == DataSourceCopy(t)
        frame == source.frame
        inplace == DropNa(NormalizedFrame(frame.rows))
        Failed(t1, r) == [table |-> t1, data |-> << >>, ret |-> r]
    IN IF ~(RequiredColumns \subseteq frame.columns)
       THEN Failed(t, Raises("InvalidDataFrameException",
                             "DataFrame does not contain necessary columns"))
       ELSE IF id_col # None /\ id_col \notin frame.columns
       THEN Failed(t, Raises("KeyError", id_col))
       ELSE IF id_col # None
               /\ Cardinality({frame.rows[i][id_col] : i \in DOMAIN frame.rows})
                     # Len(frame.rows)
       THEN Failed(t, Raises("InvalidDataFrameException",
                             "Provided ID column must be unique for each row"))
       ELSE [table |-> IF source.aliased THEN [t EXCEPT !.rows = inplace] ELSE t,
             data |-> PositiveSalary(inplace),
             ret |-> ReturnsNone]

(* Variant: the problem is built and solved whatever positions the frame   *)
(* has.                                                                    *)
OptimizeLineupUnvalidated(d, s, cs, column) ==
    {IF ~IsOptimalSolutionFound(solved)
     THEN Solved(cs, Raises("UnsolvableLineupException",
                            "No optimal solution found under current lineup constraints"),
                 solved)
     ELSE Solved(cs, Returns(OptimizedLineup(d, s, LpVariableColumn(solved).ones)),
                 solved)
     : solved \in Solve(LpProblem(d, s, cs, column))}

(* Variant: a failed call relaxes the set by its last constraint. *)
OptimizeLineupRelaxing(d, s, cs, column) ==
    LET relaxed == IF cs = << >> THEN cs ELSE SubSeq(cs, 1, Len(cs) - 1) IN
    IF ~ColContainsAllValues(d, "position", DOMAIN PositionConstraints(s))
    THEN {Outcome(relaxed, Raises("InvalidDataFrameException",
                                  "Data frame is missing required positions"))}
    ELSE {IF ~IsOptimalSolutionFound(solved)
          THEN Solved(relaxed, Raises("UnsolvableLineupException",
                                      "No optimal solution found under current lineup constraints"),
                      solved)
          ELSE Solved(cs, Returns(OptimizedLineup(d, s, LpVariableColumn(solved).ones)),
                      solved)
          : solved \in Solve(LpProblem(d, s, cs, column))}

OptimizeLineupOutcomes(d, s, cs, column) ==
    IF ~ColContainsAllValues(d, "position", DOMAIN PositionConstraints(s))
    THEN {Outcome(cs, Raises("InvalidDataFrameException",
                             "Data frame is missing required positions"))}
    ELSE {IF ~IsOptimalSolutionFound(solved)
          THEN Solved(cs, Raises("UnsolvableLineupException",
                                 "No optimal solution found under current lineup constraints"),
                      solved)
          ELSE Solved(cs, Returns(OptimizedLineup(d, s, LpVariableColumn(solved).ones)),
                      solved)
          : solved \in Solve(LpProblem(d, s, cs, column))}

----------------------------------------------------------------------------
(* Actions: one per public method *)

Do(op, args, outcome) ==
    /\ call' = [op |-> op, args |-> args]
    /\ constraints' = outcome.constraints
    /\ ret' = outcome.ret
    /\ status' = IF "status" \in DOMAIN outcome THEN outcome.status ELSE None
    /\ lpVariable' = IF "lpVariable" \in DOMAIN outcome THEN outcome.lpVariable
                     ELSE lpVariable
    /\ UNCHANGED <<site, data, table, other, files>>

(* optimizer = <Site>NflLineupOptimizer(table, id_col=id_col), when the    *)
(* caller has no optimizer yet                                             *)
NewOptimizer(id_col) ==
    LET outcome == InitOutcome(table, id_col) IN
    /\ data = << >>
    /\ call' = [op |-> "__init__", args |-> [id_col |-> id_col, instance |-> "optimizer"]]
    /\ ret' = outcome.ret
    /\ table' = outcome.table
    /\ data' = outcome.data
    /\ constraints' = << >>
    /\ lpVariable' = NoLpVariable
    /\ status' = None
    /\ UNCHANGED <<site, other, files>>

(* other = <Site>NflLineupOptimizer(table, id_col=id_col): a second        *)
(* optimizer from the same table                                           *)
NewOther(id_col) ==
    LET outcome == InitOutcome(table, id_col) IN
    /\ other = NoOptimizer
    /\ call' = [op |-> "__init__", args |-> [id_col |-> id_col, instance |-> "other"]]
    /\ ret' = outcome.ret
    /\ table' = outcome.table
    /\ other' = [NoOptimizer EXCEPT !.data = outcome.data]
    /\ status' = None
    /\ UNCHANGED <<site, data, constraints, lpVariable, files>>

SetOnlyIncludeTeams(teams) ==
    Do("set_only_include_teams", [teams |-> teams],
       SetOnlyIncludeTeamsOutcome(teams, constraints))

SetExcludeTeams(teams) ==
    Do("set_exclude_teams", [teams |-> teams],
       SetExcludeTeamsOutcome(teams, data, constraints))

SetMustIncludeTeam(team) ==
    Do("set_must_include_team", [team |-> team],
       SetMustIncludeTeamOutcome(team, data, site, constraints))

SetMustIncludePlayer(by, key) ==
    Do("set_must_include_player", [by |-> by, key |-> key],
       SetMustIncludePlayerOutcome(by, key, data, constraints))

SetExcludePlayer(by, key) ==
    Do("set_exclude_player", [by |-> by, key |-> key],
       SetExcludePlayerOutcome(by, key, data, constraints))

SetNumPlayersFromTeam(n, team) ==
    Do("set_num_players_from_team", [n |-> n, team |-> team],
       SetNumPlayersFromTeamOutcome(n, team, data, site, constraints))

SetMaxPlayersFromTeam(n, team) ==
    Do("set_max_players_from_team", [n |-> n, team |-> team],
       SetMaxPlayersFromTeamOutcome(n, team, data, constraints))

SetMinPlayersFromTeam(n, team) ==
    Do("set_min_players_from_team", [n |-> n, team |-> team],
       SetMinPlayersFromTeamOutcome(n, team, data, site, constraints))

SetMaxSalary(n) ==
    Do("set_max_salary", [n |-> n], SetMaxSalaryOutcome(n, constraints))

SetMinSalary(n) ==
    Do("set_min_salary", [n |-> n], SetMinSalaryOutcome(n, site, constraints))

SetGameSlate(slate) ==
    Do("set_game_slate", [slate |-> slate],
       SetNflGameSlateOutcome(slate, data, site, constraints))

SetQbReceiverStack(team, position, num_receivers) ==
    Do("set_qb_receiver_stack",
       [team |-> team, position |-> position, num_receivers |-> num_receivers],
       SetQbReceiverStackOutcome(team, position, num_receivers, data, constraints))

SetRbDstStack(team) ==
    Do("set_rb_dst_stack", [team |-> team],
       SetRbDstStackOutcome(team, data, constraints))

ClearConstraints ==
    Do("clear_constraints", [none |-> None], ClearConstraintsOutcome(constraints))

OptimizeLineup ==
    \E outcome \in OptimizeLineupOutcomes(data, site, constraints, lpVariable) :
        Do("optimize_lineup", [none |-> None], outcome)

(* A call on the second optimizer: its constraint list and LpVariable      *)
(* column are those of `other`                                             *)
DoOther(op, args, outcome) ==
    /\ other.data # << >>
    /\ call' = [op |-> op, args |-> args @@ [instance |-> "other"]]
    /\ other' = [other EXCEPT !.constraints = outcome.constraints,
                              !.lpVariable = IF "lpVariable" \in DOMAIN outcome
                                             THEN outcome.lpVariable ELSE @]
    /\ ret' = outcome.ret
    /\ status' = IF "status" \in DOMAIN outcome THEN outcome.status ELSE None
    /\ UNCHANGED <<site, data, constraints, lpVariable, table, files>>

OtherSetExcludePlayer(by, key) ==
    DoOther("set_exclude_player", [by |-> by, key |-> key],
            SetExcludePlayerOutcome(by, key, other.data, other.constraints))

OtherSetMaxPlayersFromTeam(n, team) ==
    DoOther("set_max_players_from_team", [n |-> n, team |-> team],
            SetMaxPlayersFromTeamOutcome(n, team, other.data, other.constraints))

OtherClearConstraints ==
    DoOther("clear_constraints", [none |-> None], ClearConstraintsOutcome(other.constraints))

OtherOptimizeLineup ==
    \E outcome \in OptimizeLineupOutcomes(other.data, site, other.constraints, other.lpVariable) :
        DoOther("optimize_lineup", [none |-> None], outcome)

(* The lineup the caller holds: the one just returned, or the one just     *)
(* written.                                                                *)
HeldLineups ==
    IF ret.kind = "OptimizedLineup" THEN {ret.lineup}
    ELSE IF call.op = "write_to_file" THEN {call.args.self}
    ELSE {}

(* lineup.write_to_file(file_path) *)
WriteToFile(file_path) ==
    \E lineup \in HeldLineups :
        LET outcome == WriteToFileOutcome(data, lineup, file_path, files) IN
        /\ call' = [op |-> "write_to_file", args |-> [self |-> lineup, file_path |-> file_path]]
        /\ ret' = outcome.ret
        /\ files' = outcome.files
        /\ UNCHANGED <<site, data, constraints, lpVariable, status, table, other>>

----------------------------------------------------------------------------
(* The optimizer after construction, and the calls made on it *)

MaxConstraints == 2

MaxTeamConstraints == 3

MaxSalaryConstraints == 3

MaxPlayerConstraints == 3

MaxStackConstraints == 3

Within(k) == Len(constraints') <= k

(* What the specifications that do not use them start with: no second     *)
(* optimizer, no files.                                                    *)
Alone == other = NoOptimizer /\ files = << >>

Init ==
    /\ site \in Sites
    /\ table = DataFrame(Columns, RawRoster(site))
    /\ Alone
    /\ data = Construct(RawRoster(site))
    /\ constraints = << >>
    /\ call = [op |-> "__init__", args |-> [none |-> None]]
    /\ ret = ReturnsNone
    /\ lpVariable = NoLpVariable
    /\ status = None

SalaryStep(s) == SalaryCap(s) \div 10

(* Every public method, with the arguments that make each kind of          *)
(* constraint appear and each conflict rule fire.                          *)
Next ==
    \/ \E teams \in {<<"GB">>, <<"GB", "CHI">>} :
            SetOnlyIncludeTeams(teams) /\ Within(MaxConstraints)
    \/ \E teams \in {<<"CHI">>, <<"GB", "ZZ">>} :
            SetExcludeTeams(teams) /\ Within(MaxConstraints)
    \/ SetMustIncludeTeam("GB") /\ Within(MaxConstraints)
    \/ SetMustIncludePlayer("name", "Adams") /\ Within(MaxConstraints)
    \/ SetExcludePlayer("name", "Adams") /\ Within(MaxConstraints)
    \/ \E n \in {0, 2} : SetNumPlayersFromTeam(n, "GB") /\ Within(MaxConstraints)
    \/ \E n \in {0, 2} : SetMaxPlayersFromTeam(n, "GB") /\ Within(MaxConstraints)
    \/ \E n \in {0, 1} : SetMinPlayersFromTeam(n, "GB") /\ Within(MaxConstraints)
    \/ \E n \in {SalaryCap(site) - SalaryStep(site), SalaryCap(site) + SalaryStep(site)} :
            SetMaxSalary(n) /\ Within(MaxConstraints)
    \/ \E n \in {SalaryCap(site), SalaryCap(site) + SalaryStep(site)} :
            SetMinSalary(n) /\ Within(MaxConstraints)
    \/ \E slate \in {"sunday", "monday", "monday_and_thursday"} :
            SetGameSlate(slate) /\ Within(MaxConstraints)
    \/ \E num \in {NoneInt, SomeInt(2)} :
            SetQbReceiverStack("GB", None, num) /\ Within(MaxConstraints)
    \/ SetRbDstStack("GB") /\ Within(MaxConstraints)
    \/ ClearConstraints
    \/ OptimizeLineup

Spec == Init /\ [][Next]_vars

(* The team rules: exact / max / min counts, exclusion, must-include and   *)
(* only-include.                                                           *)
NextTeams ==
    \/ \E teams \in {<< >>, <<"GB">>, <<"GB", "CHI">>} :
            SetOnlyIncludeTeams(teams) /\ Within(MaxTeamConstraints)
    \/ \E teams \in {<< >>, <<"CHI">>, <<"GB", "ZZ">>, <<"GB", "GB">>, <<"CHI", "GB">>} :
            SetExcludeTeams(teams) /\ Within(MaxTeamConstraints)
    \/ \E team \in {"GB", "ZZ"} : SetMustIncludeTeam(team) /\ Within(MaxTeamConstraints)
    \/ \E a \in {<<0, "GB">>, <<2, "GB">>, <<10, "GB">>, <<-1, "CHI">>, <<2, "ZZ">>} :
            SetNumPlayersFromTeam(a[1], a[2]) /\ Within(MaxTeamConstraints)
    \/ \E a \in {<<-1, "GB">>, <<0, "GB">>, <<2, "GB">>, <<2, "CHI">>, <<2, "ZZ">>} :
            SetMaxPlayersFromTeam(a[1], a[2]) /\ Within(MaxTeamConstraints)
    \/ \E a \in {<<0, "GB">>, <<2, "GB">>, <<10, "GB">>, <<2, "CHI">>, <<2, "ZZ">>} :
            SetMinPlayersFromTeam(a[1], a[2]) /\ Within(MaxTeamConstraints)
    \/ ClearConstraints

SpecTeams == Init /\ [][NextTeams]_vars

(* The salary rules *)
SalaryArgs(s) ==
    {0, SalaryCap(s) - 2 * SalaryStep(s), SalaryCap(s) - SalaryStep(s), SalaryCap(s),
     SalaryCap(s) + SalaryStep(s)}

NextSalary ==
    \/ \E n \in SalaryArgs(site) : SetMaxSalary(n) /\ Within(MaxSalaryConstraints)
    \/ \E n \in SalaryArgs(site) : SetMinSalary(n) /\ Within(MaxSalaryConstraints)
    \/ ClearConstraints

SpecSalary == Init /\ [][NextSalary]_vars

(* The player rules *)
PlayerArgs ==
    {<<"name", "Adams">>, <<"name", "Jones">>, <<"name", "Nobody">>,
     <<"id", "id6">>, <<"id", "id99">>}

NextPlayers ==
    \/ \E p \in PlayerArgs : SetMustIncludePlayer(p[1], p[2]) /\ Within(MaxPlayerConstraints)
    \/ \E p \in PlayerArgs : SetExcludePlayer(p[1], p[2]) /\ Within(MaxPlayerConstraints)
    \/ ClearConstraints

SpecPlayers == Init /\ [][NextPlayers]_vars

(* The stack rules, with the team caps they are validated against *)
NextStacks ==
    \/ \E a \in {<<"GB", None, NoneInt>>, <<"CHI", "WR", NoneInt>>, <<"GB", None, SomeInt(2)>>,
                 <<"GB", "TE", SomeInt(1)>>, <<"GB", "RB", NoneInt>>, <<"ZZ", None, NoneInt>>} :
            SetQbReceiverStack(a[1], a[2], a[3]) /\ Within(MaxStackConstraints)
    \/ \E team \in {"GB", "CHI", "ZZ"} : SetRbDstStack(team) /\ Within(MaxStackConstraints)
    \/ \E a \in {<<1, "GB">>, <<2, "GB">>, <<0, "CHI">>} :
            SetMaxPlayersFromTeam(a[1], a[2]) /\ Within(MaxStackConstraints)
    \/ ClearConstraints

SpecStacks == Init /\ [][NextStacks]_vars

(* The stack setters with the solver *)
NextStackSolves ==
    \/ \E a \in {<<"GB", None, NoneInt>>, <<"CHI", "WR", NoneInt>>,
                  <<"CHI", None, SomeInt(2)>>, <<"GB", "TE", NoneInt>>,
                  <<"CHI", "TE", NoneInt>>, <<"GB", None, SomeInt(3)>>} :
          SetQbReceiverStack(a[1], a[2], a[3])
    \/ \E team \in {"GB", "CHI", "DET"} : SetRbDstStack(team)
    \/ ClearConstraints
    \/ OptimizeLineup

SpecStackSolves == Init /\ [][NextStackSolves]_vars

(* optimize_lineup on the main roster and on a roster without tight ends *)
InitRosters ==
    /\ site \in Sites
    /\ \E raw \in {RawRoster(site),
                    WithoutPosition(RawRoster(site), TE),
                    WithoutPosition(RawRoster(site), QB),
                    WithUnrecognized(RawRoster(site), DST)} :
          table = DataFrame(Columns, raw) /\ data = Construct(raw)
    /\ Alone
    /\ constraints = << >>
    /\ call = [op |-> "__init__", args |-> [none |-> None]]
    /\ ret = ReturnsNone
    /\ lpVariable = NoLpVariable
    /\ status = None

NextRosters ==
    \/ SetMaxSalary(SalaryCap(site) - SalaryStep(site)) /\ Within(MaxConstraints)
    \/ SetMustIncludePlayer("name", "Adams") /\ Within(MaxConstraints)
    \/ SetExcludePlayer("name", "Adams") /\ Within(MaxConstraints)
    \/ SetMaxPlayersFromTeam(2, "GB") /\ Within(MaxConstraints)
    \/ SetGameSlate("monday") /\ Within(MaxConstraints)
    \/ ClearConstraints
    \/ OptimizeLineup

SpecRosters == InitRosters /\ [][NextRosters]_vars

(* Construction from the tables of a caller: the main roster with every    *)
(* column, without one of its columns, and with an id that is not unique.  *)
Tables(s) ==
    {DataFrame(Columns \ missing, NaRoster(s)) : missing \in {{}} \cup {{c} : c \in Columns}}
        \cup {DataFrame(Columns, DuplicateIdRoster(s))}

InitTables ==
    /\ site \in Sites
    /\ table \in Tables(site)
    /\ Alone
    /\ data = << >>
    /\ constraints = << >>
    /\ call = [op |-> "import", args |-> [none |-> None]]
    /\ ret = ReturnsNone
    /\ lpVariable = NoLpVariable
    /\ status = None

NextTables ==
    \/ \E id_col \in {None, "id"} : NewOptimizer(id_col)
    \/ \E id_col \in {None, "id"} : NewOther(id_col)
    \/ data # << >> /\ SetMaxPlayersFromTeam(2, "GB") /\ Within(1)
    \/ data # << >> /\ SetExcludePlayer("name", "Adams") /\ Within(1)
    \/ data # << >> /\ ClearConstraints
    \/ data # << >> /\ OptimizeLineup
    \/ OtherSetMaxPlayersFromTeam(2, "GB") /\ Len(other'.constraints) <= 1
    \/ OtherSetExcludePlayer("name", "Adams") /\ Len(other'.constraints) <= 1
    \/ OtherClearConstraints
    \/ OtherOptimizeLineup

SpecTables == InitTables /\ [][NextTables]_vars

(* Lineups written to files: the lineups of the main roster, with and      *)
(* without a player excluded, written to paths with and without the csv    *)
(* extension, one of them the path of a file that exists already.          *)
MaxWrites == 2

RowsWritten ==
    LET written == [p \in Paths |-> Cardinality({k \in DOMAIN files[p].lines :
                                                    ~files[p].lines[k].header})]
    IN SumOver(written, Paths)

InitialFiles == [p \in Paths |-> IF p = OldCsv THEN [exists |-> TRUE, lines |-> << >>] ELSE NoFile]

InitFiles ==
    /\ site \in Sites
    /\ table = DataFrame(Columns, RawRoster(site))
    /\ other = NoOptimizer
    /\ files = InitialFiles
    /\ data = Construct(RawRoster(site))
    /\ constraints = << >>
    /\ call = [op |-> "__init__", args |-> [none |-> None]]
    /\ ret = ReturnsNone
    /\ lpVariable = NoLpVariable
    /\ status = None

NextFiles ==
    \/ SetExcludePlayer("name", "Adams") /\ Within(1)
    \/ ClearConstraints
    \/ OptimizeLineup
    \/ \E file_path \in {<< >>} \cup {<<p>> : p \in Paths} :
          WriteToFile(file_path) /\ RowsWritten' <= MaxWrites * NumPlayers(site)

SpecFiles == InitFiles /\ [][NextFiles]_vars

(* Lineups with and without players of the flex positions, so that the     *)
(* running backs, the wide receivers or the tight ends fill the flex slot  *)
NextFlex ==
    \/ \E name \in {"Jones", "Adams", "Tonyan", "Swift", "Golladay"} :
          SetExcludePlayer("name", name) /\ Within(MaxConstraints)
    \/ ClearConstraints
    \/ OptimizeLineup

SpecFlex == Init /\ [][NextFlex]_vars

(* Pairs of rules added in either order: stacks, maximums, minimums and    *)
(* only-include lists of the same teams                                    *)
NextOrder ==
    \/ \E num \in {NoneInt, SomeInt(2)} :
            SetQbReceiverStack("GB", None, num) /\ Within(MaxConstraints)
    \/ SetRbDstStack("GB") /\ Within(MaxConstraints)
    \/ \E a \in {<<0, "GB">>, <<1, "GB">>, <<2, "GB">>, <<0, "CHI">>} :
            SetMaxPlayersFromTeam(a[1], a[2]) /\ Within(MaxConstraints)
    \/ \E a \in {<<1, "GB">>, <<3, "GB">>} :
            SetMinPlayersFromTeam(a[1], a[2]) /\ Within(MaxConstraints)
    \/ \E teams \in {<<"GB">>, <<"CHI">>, <<"GB", "CHI">>} :
            SetOnlyIncludeTeams(teams) /\ Within(MaxConstraints)
    \/ SetMustIncludePlayer("name", "Adams") /\ Within(MaxConstraints)
    \/ SetExcludePlayer("name", "Adams") /\ Within(MaxConstraints)
    \/ \E n \in {SalaryCap(site) - SalaryStep(site), SalaryCap(site)} :
            SetMaxSalary(n) /\ Within(MaxConstraints)
    \/ SetMinSalary(SalaryCap(site)) /\ Within(MaxConstraints)
    \/ \E slate \in {"sunday", "monday"} : SetGameSlate(slate) /\ Within(MaxConstraints)
    \/ ClearConstraints

SpecOrder == Init /\ [][NextOrder]_vars

(* The slate setters, on the rosters of one, two and three weeks *)
InitSlates ==
    /\ site \in Sites
    /\ \E raw \in SlateRosters(site) :
          table = DataFrame(Columns, raw) /\ data = Construct(raw)
    /\ Alone
    /\ constraints = << >>
    /\ call = [op |-> "__init__", args |-> [none |-> None]]
    /\ ret = ReturnsNone
    /\ lpVariable = NoLpVariable
    /\ status = None

NextSlates ==
    \/ \E slate \in SlateNames : SetGameSlate(slate)
    \/ ClearConstraints
    \/ OptimizeLineup

SpecSlates == InitSlates /\ [][NextSlates]_vars

----------------------------------------------------------------------------
(* Properties *)

(* The rows of a returned lineup *)
SelectedOf(lineup) == {lineup.players[k].index : k \in 1..Len(lineup.players)}

PointsOf(selected) == SumOver([i \in DOMAIN data |-> data[i].points], selected)

SalaryOf(selected) == SumOver([i \in DOMAIN data |-> data[i].salary], selected)

Rejected(r) == r.kind = "InvalidConstraintException"

(* C1: every lineup optimize_lineup returns has as many players as the     *)
(* roster of the site, a total salary of at most the cap of the site       *)
(* (whatever max-salary the user had accepted), and for each position of   *)
(* the site a count between the minimum and the maximum of the position.   *)
C1_LineupSatisfiesSiteProfile ==
    ret.kind = "OptimizedLineup" =>
        LET selected == SelectedOf(ret.lineup) IN
        /\ Len(ret.lineup.players) = NumPlayers(site)
        /\ Cardinality(selected) = NumPlayers(site)
        /\ selected \subseteq DOMAIN data
        /\ SalaryOf(selected) <= SalaryCap(site)
        /\ ret.lineup.salary = SalaryOf(selected)
        /\ \A p \in DOMAIN PositionConstraints(site) :
              LET count == Cardinality({i \in selected : data[i].position = p}) IN
              /\ PositionConstraints(site)[p][1] <= count
              /\ count <= PositionConstraints(site)[p][2]

(* A lineup returned while a user max-salary above the cap of the site is  *)
(* in the constraint set.                                                  *)
C1_Witness ==
    /\ ret.kind = "OptimizedLineup"
    /\ \E k \in 1..Len(constraints) :
          /\ constraints[k].type = "MaxSalaryCapConstraint"
          /\ constraints[k].salary > SalaryCap(site)

(* C2: when optimize_lineup returns a lineup, no selection of rows that    *)
(* satisfies the position bounds, the lineup size, the cap of the site and *)
(* every expression of the active constraints has more points (unrounded)  *)
(* than the lineup.                                                        *)
C2_LineupIsOptimal ==
    ret.kind = "OptimizedLineup" =>
        LET problem == LpProblem(data, site, constraints, NoLpVariable)
            returned == PointsOf(SelectedOf(ret.lineup))
        IN \A a \in Satisfying(SUBSET (DOMAIN data), problem.constraints) :
              PointsOf(a) <= returned

(* A lineup returned under two user constraints that had other selections  *)
(* to beat: some selection satisfying everything has fewer points.         *)
C2_Witness ==
    /\ ret.kind = "OptimizedLineup"
    /\ Len(constraints) = 2
    /\ \E a \in Feasible(LpProblem(data, site, constraints, NoLpVariable)) :
          PointsOf(a) < PointsOf(SelectedOf(ret.lineup))

SingleConstraintMutators ==
    {"set_max_players_from_team", "set_min_players_from_team", "set_max_salary",
     "set_min_salary", "set_must_include_player", "set_exclude_player",
     "set_only_include_teams", "set_qb_receiver_stack", "set_rb_dst_stack",
     "set_game_slate"}

HasMaxFor(cs, team) ==
    \E k \in 1..Len(cs) :
        cs[k].type = "MaxPlayersFromTeamConstraint" /\ cs[k].team = team

(* C3: a call of a single-constraint mutator that is rejected as an        *)
(* invalid constraint leaves the constraint list as it was, elements and   *)
(* order; and a max-n for a team that already has one is rejected.         *)
C3_RejectionLeavesSetUnchanged ==
    [][/\ (call'.op \in SingleConstraintMutators /\ Rejected(ret'))
              => constraints' = constraints
       /\ (/\ call'.op = "set_max_players_from_team"
           /\ call'.args.n >= 0
           /\ HasMaxFor(constraints, call'.args.team))
              => (Rejected(ret') /\ constraints' = constraints)]_vars

(* A second max-n for a team has just been rejected. *)
C3_Witness ==
    /\ call.op = "set_max_players_from_team"
    /\ Rejected(ret)
    /\ HasMaxFor(constraints, call.args.team)

(* C4: set_num_players_from_team(n, team) either succeeds and appends a    *)
(* max-n(team, n) followed by a min-n(team, n), or fails (on its           *)
(* arguments, on the max-n, or on the min-n after the max-n was accepted)  *)
(* and leaves the constraint list as it was.                               *)
C4_NumPlayersFromTeamIsAtomic ==
    [][call'.op = "set_num_players_from_team" =>
          IF ret'.kind = "None"
          THEN constraints' =
                  constraints \o
                      << MaxPlayersFromTeamConstraint(call'.args.n, call'.args.team),
                         MinPlayersFromTeamConstraint(call'.args.n, call'.args.team) >>
          ELSE constraints' = constraints]_vars

(* The call has just failed on its min-n, after its max-n had been         *)
(* accepted: the team had a min-n, no max-n, and the min-n was not above n *)
C4_Witness ==
    /\ call.op = "set_num_players_from_team"
    /\ Rejected(ret)
    /\ ~HasMaxFor(constraints, call.args.team)
    /\ \E k \in 1..Len(constraints) :
          /\ constraints[k].type = "MinPlayersFromTeamConstraint"
          /\ constraints[k].team = call.args.team
          /\ constraints[k].minimum <= call.args.n

(* C5: a call of set_exclude_teams that fails at one of its teams leaves   *)
(* the constraint list as it was before the call.                          *)
C5_ExcludeTeamsRollsBack ==
    [][(call'.op = "set_exclude_teams" /\ ret'.kind # "None")
          => constraints' = constraints]_vars

(* set_exclude_teams has just raised and the max-n(0) it had appended for *)
(* an earlier team of its list is still the last constraint of the list.   *)
C5_Witness ==
    /\ call.op = "set_exclude_teams"
    /\ ret.kind # "None"
    /\ Len(constraints) > 0
    /\ constraints[Len(constraints)] =
          MaxPlayersFromTeamConstraint(0, call.args.teams[1])
    /\ Len(call.args.teams) = 2

SalariesOf(cs, type) == {cs[k].salary : k \in {j \in 1..Len(cs) : cs[j].type = type}}

(* C6: every min-salary bound in the constraint list is at most every      *)
(* max-salary bound in it; a min-salary is rejected exactly when a         *)
(* max-salary below it is in the list, a max-salary exactly when a         *)
(* min-salary above it is, so equal bounds are accepted in either order.   *)
C6_SalaryBoundsAreConsistent ==
    /\ [](\A lo \in SalariesOf(constraints, "MinSalaryCapConstraint"),
             hi \in SalariesOf(constraints, "MaxSalaryCapConstraint") : lo <= hi)
    /\ [][/\ (call'.op = "set_min_salary" /\ ret'.kind # "ValueError") =>
                IF \E hi \in SalariesOf(constraints, "MaxSalaryCapConstraint") :
                        hi < call'.args.n
                THEN Rejected(ret') /\ constraints' = constraints
                ELSE constraints' =
                        Append(constraints, MinSalaryCapConstraint(call'.args.n))
          /\ (call'.op = "set_max_salary" /\ ret'.kind # "ValueError") =>
                IF \E lo \in SalariesOf(constraints, "MinSalaryCapConstraint") :
                        lo > call'.args.n
                THEN Rejected(ret') /\ constraints' = constraints
                ELSE constraints' =
                        Append(constraints, MaxSalaryCapConstraint(call'.args.n))]_vars

(* A max-salary equal to a min-salary of the list has just been accepted. *)
C6_Witness ==
    /\ call.op = "set_max_salary"
    /\ ret.kind = "None"
    /\ call.args.n \in SalariesOf(constraints, "MinSalaryCapConstraint")
    /\ constraints[Len(constraints)] = MaxSalaryCapConstraint(call.args.n)

PlayersOf(cs, type) == {cs[k].player : k \in {j \in 1..Len(cs) : cs[j].type = type}}

(* C7: no player identifier is both included and excluded in the           *)
(* constraint list: an exclude of an included identifier, and an include   *)
(* of an excluded identifier, is rejected as an invalid constraint and     *)
(* leaves the list as it was.                                              *)
C7_IncludeAndExcludeAreExclusive ==
    /\ [](PlayersOf(constraints, "IncludePlayerConstraint")
              \cap PlayersOf(constraints, "ExcludePlayerConstraint") = {})
    /\ [][/\ (/\ call'.op = "set_exclude_player"
              /\ call'.args.key \in PlayersOf(constraints, "IncludePlayerConstraint")
              /\ ret'.kind # "ValueError")
                 => (Rejected(ret') /\ constraints' = constraints)
          /\ (/\ call'.op = "set_must_include_player"
              /\ call'.args.key \in PlayersOf(constraints, "ExcludePlayerConstraint")
              /\ ret'.kind # "ValueError")
                 => (Rejected(ret') /\ constraints' = constraints)]_vars

(* An exclude of an included identifier has just been rejected. *)
C7_Witness ==
    /\ call.op = "set_exclude_player"
    /\ Rejected(ret)
    /\ call.args.key \in PlayersOf(constraints, "IncludePlayerConstraint")
    /\ call.args.key \notin PlayersOf(constraints, "ExcludePlayerConstraint")

MaxesFor(cs, team) ==
    {k \in 1..Len(cs) : cs[k].type = "MaxPlayersFromTeamConstraint" /\ cs[k].team = team}

MinsFor(cs, team) ==
    {k \in 1..Len(cs) : cs[k].type = "MinPlayersFromTeamConstraint" /\ cs[k].team = team}

TeamsOf(cs) ==
    {cs[k].team : k \in {j \in 1..Len(cs) :
                            cs[j].type \in {"MaxPlayersFromTeamConstraint",
                                            "MinPlayersFromTeamConstraint"}}}

(* C8: every team has at most one min-n and at most one max-n in the       *)
(* constraint list, with the minimum at most the maximum; and a min-n is   *)
(* accepted when its team has no min-n and no max-n below it (an equal one *)
(* included), likewise a max-n.                                            *)
C8_TeamBoundsAreConsistent ==
    /\ [](\A team \in TeamsOf(constraints) :
             /\ Cardinality(MaxesFor(constraints, team)) <= 1
             /\ Cardinality(MinsFor(constraints, team)) <= 1
             /\ \A i \in MinsFor(constraints, team), j \in MaxesFor(constraints, team) :
                   constraints[i].minimum <= constraints[j].maximum)
    /\ [][/\ (/\ call'.op = "set_min_players_from_team"
              /\ ret'.kind # "ValueError"
              /\ call'.args.n # 0
              /\ MinsFor(constraints, call'.args.team) = {}
              /\ \A j \in MaxesFor(constraints, call'.args.team) :
                    constraints[j].maximum >= call'.args.n)
                 => constraints' =
                       Append(constraints,
                              MinPlayersFromTeamConstraint(call'.args.n, call'.args.team))
          /\ (/\ call'.op = "set_max_players_from_team"
              /\ ret'.kind # "ValueError"
              /\ MaxesFor(constraints, call'.args.team) = {}
              /\ \A i \in MinsFor(constraints, call'.args.team) :
                    constraints[i].minimum <= call'.args.n)
                 => constraints' =
                       Append(constraints,
                              MaxPlayersFromTeamConstraint(call'.args.n, call'.args.team))]_vars

(* A min-n equal to the max-n of its team has just been accepted. *)
C8_Witness ==
    /\ call.op = "set_min_players_from_team"
    /\ ret.kind = "None"
    /\ \E i \in MinsFor(constraints, call.args.team),
          j \in MaxesFor(constraints, call.args.team) :
          /\ i = Len(constraints)
          /\ constraints[i].minimum = constraints[j].maximum

ExcludedTeams(cs) ==
    {cs[k].team : k \in {j \in 1..Len(cs) :
                            /\ cs[j].type = "MaxPlayersFromTeamConstraint"
                            /\ cs[j].maximum = 0}}

(* C9: set_only_include_teams(L), L not empty, is rejected as an invalid   *)
(* constraint exactly when every team of L has a max-n with maximum 0 in   *)
(* the constraint list; otherwise the only-include constraint is appended. *)
C9_OnlyIncludeRejectedIffAllExcluded ==
    [][(call'.op = "set_only_include_teams" /\ Len(call'.args.teams) > 0) =>
          IF Range(call'.args.teams) \subseteq ExcludedTeams(constraints)
          THEN Rejected(ret') /\ constraints' = constraints
          ELSE /\ ret'.kind = "None"
               /\ constraints' =
                     Append(constraints, OnlyIncludeTeamsConstraint(call'.args.teams))]_vars

(* An inclusion list of two teams has just been rejected, one team         *)
(* excluded by an exact count of 0 (its min-n of 0 is in the list).        *)
C9_Witness ==
    /\ call.op = "set_only_include_teams"
    /\ Rejected(ret)
    /\ Cardinality(Range(call.args.teams)) = 2
    /\ \E k \in 1..Len(constraints) :
          /\ constraints[k].type = "MinPlayersFromTeamConstraint"
          /\ constraints[k].minimum = 0
          /\ constraints[k].team \in Range(call.args.teams)

StacksOf(cs, type) == {k \in 1..Len(cs) : cs[k].type = type}

CappedBelowTwo(cs, team) ==
    \E k \in MaxesFor(cs, team) : cs[k].maximum < 2

(* C10: a stack (its arguments being valid) is rejected as an invalid      *)
(* constraint exactly when a stack of its kind is in the constraint list,  *)
(* whatever the team, or a max-n below 2 for its team is; otherwise it is  *)
(* appended.  The list never holds two stacks of one kind.                 *)
C10_StackRejectedIffSameKindOrCapped ==
    /\ [](/\ Cardinality(StacksOf(constraints, "QbReceiverStackConstraint")) <= 1
          /\ Cardinality(StacksOf(constraints, "RbDstStackConstraint")) <= 1)
    /\ [][/\ (call'.op = "set_qb_receiver_stack" /\ ret'.kind # "ValueError") =>
                IF \/ StacksOf(constraints, "QbReceiverStackConstraint") # {}
                   \/ CappedBelowTwo(constraints, call'.args.team)
                THEN Rejected(ret') /\ constraints' = constraints
                ELSE /\ ret'.kind = "None"
                     /\ constraints' =
                           Append(constraints,
                                  QbReceiverStackConstraint(call'.args.team,
                                                            call'.args.position,
                                                            call'.args.num_receivers))
          /\ (call'.op = "set_rb_dst_stack" /\ ret'.kind # "ValueError") =>
                IF \/ StacksOf(constraints, "RbDstStackConstraint") # {}
                   \/ CappedBelowTwo(constraints, call'.args.team)
                THEN Rejected(ret') /\ constraints' = constraints
                ELSE /\ ret'.kind = "None"
                     /\ constraints' =
                           Append(constraints, RbDstStackConstraint(call'.args.team))]_vars

(* A QB/receiver stack and an RB/DST stack are in the list together, the   *)
(* second of them just accepted.                                           *)
C10_Witness ==
    /\ call.op \in {"set_qb_receiver_stack", "set_rb_dst_stack"}
    /\ ret.kind = "None"
    /\ StacksOf(constraints, "QbReceiverStackConstraint") # {}
    /\ StacksOf(constraints, "RbDstStackConstraint") # {}

(* The game slates of a constraint set *)
SlatesOf(cs) == {cs[i].slate : i \in {j \in DOMAIN cs : cs[j].type = "GameSlateConstraint"}}

NumSlates(cs) == Cardinality({i \in DOMAIN cs : cs[i].type = "GameSlateConstraint"})

(* The Monday/Thursday setter on a roster that does not span two weeks    *)
(* fails on its own check before it builds a constraint.                   *)
NeedsTwoWeeks(slate) == slate = "monday_and_thursday" /\ Len(Weeks(data)) # 2

(* C11: the constraint set never holds more than one game-slate            *)
(* constraint.  A slate request that reaches validation while a slate of   *)
(* any variant is in the set is rejected as an invalid constraint and      *)
(* leaves the set as it was; with no slate in the set, in particular right *)
(* after clear_constraints, it is accepted and appended.                   *)
C11_AtMostOneGameSlate ==
    /\ [](NumSlates(constraints) <= 1)
    /\ [][call'.op = "set_game_slate" /\ ~NeedsTwoWeeks(call'.args.slate) =>
            IF NumSlates(constraints) > 0
            THEN Rejected(ret') /\ constraints' = constraints
            ELSE /\ ret' = ReturnsNone
                 /\ constraints' = Append(constraints,
                        GameSlateConstraint(call'.args.slate, NumPlayers(site)))]_vars
    /\ [][call.op = "clear_constraints" /\ call'.op = "set_game_slate" =>
            ~Rejected(ret')]_vars

(* A slate of another variant was requested while one was in the set, and  *)
(* was rejected.                                                           *)
C11_Witness ==
    /\ call.op = "set_game_slate"
    /\ Rejected(ret)
    /\ call.args.slate = "sunday_early"
    /\ SlatesOf(constraints) = {"monday"}

(* The players of a lineup that satisfy a condition on their row *)
PlayersAt(lineup, team, positions) ==
    {i \in SelectedOf(lineup) : data[i].team = team /\ data[i].position \in positions}

(* C12: every lineup optimize_lineup returns honours every stack of the    *)
(* constraint set: for a QB/receiver stack on a team, a quarterback of the *)
(* team and at least N players of the team at the receiver positions (WR   *)
(* or TE, or the one position named; N is 1 unless a count was given); for *)
(* an RB/DST stack, at least one running back of the team and exactly one  *)
(* defense of the team.                                                    *)
C12_LineupHonoursStacks ==
    ret.kind = "OptimizedLineup" =>
        \A k \in DOMAIN constraints :
            LET c == constraints[k] IN
            /\ c.type = "QbReceiverStackConstraint" =>
                  /\ PlayersAt(ret.lineup, c.team, {"QB"}) # {}
                  /\ Cardinality(PlayersAt(ret.lineup, c.team,
                                           IF c.position = None THEN {"WR", "TE"}
                                           ELSE {c.position}))
                        >= (IF IsNoneInt(c.num_receivers) THEN 1 ELSE IntOf(c.num_receivers))
            /\ c.type = "RbDstStackConstraint" =>
                  /\ PlayersAt(ret.lineup, c.team, {"RB"}) # {}
                  /\ Cardinality(PlayersAt(ret.lineup, c.team, {"DST"})) = 1

(* A lineup returned under a QB/receiver stack with a count and an RB/DST  *)
(* stack on the team whose quarterback and defense are not the best ones.  *)
C12_Witness ==
    /\ ret.kind = "OptimizedLineup"
    /\ \E k \in DOMAIN constraints :
          /\ constraints[k].type = "QbReceiverStackConstraint"
          /\ constraints[k].team = "CHI"
          /\ constraints[k].num_receivers = SomeInt(2)
    /\ \E k \in DOMAIN constraints :
          /\ constraints[k].type = "RbDstStackConstraint"
          /\ constraints[k].team = "CHI"

(* The game times a slate admits, as the slates are documented *)
InSlate(slate, datetime) ==
    LET sunday == Weekday(datetime) = 6
        monday == Weekday(datetime) = 0
    IN CASE slate = "sunday" -> sunday
         [] slate = "sunday_early" -> sunday /\ Hour(datetime) = 13
         [] slate = "sunday_early_and_late" -> sunday /\ Hour(datetime) \in {13, 16}
         [] slate = "sunday_and_monday" -> sunday \/ monday
         [] slate = "monday" -> monday

SingleWeekSlates ==
    {"sunday", "sunday_early", "sunday_early_and_late", "sunday_and_monday", "monday"}

(* C13: every player of every lineup optimize_lineup returns while a game  *)
(* slate is in the constraint set plays in the slate: on Sunday; on Sunday *)
(* at 13h for the early slate; on Sunday at 13h or 16h for the early and   *)
(* late slate; on Sunday or Monday; on Monday.                             *)
C13_LineupWithinSlate ==
    ret.kind = "OptimizedLineup" =>
        \A slate \in SlatesOf(constraints) \cap SingleWeekSlates :
            \A i \in SelectedOf(ret.lineup) : InSlate(slate, data[i].datetime)

(* A lineup returned under the early and late Sunday slate from a roster   *)
(* whose Sunday night, Monday and Thursday players score more than some    *)
(* player of the lineup.                                                   *)
C13_Witness ==
    /\ ret.kind = "OptimizedLineup"
    /\ SlatesOf(constraints) = {"sunday_early_and_late"}
    /\ \E i \in SelectedOf(ret.lineup) : Hour(data[i].datetime) = 16
    /\ \E i \in DOMAIN data \ SelectedOf(ret.lineup), j \in SelectedOf(ret.lineup) :
          /\ ~InSlate("sunday_early_and_late", data[i].datetime)
          /\ data[i].position = data[j].position
          /\ data[i].points > data[j].points

(* The rows the expression of a slate constraint counts *)
RowsCounted(c) == DOMAIN GameSlateApply(c, data)[1].terms

(* C14: under the Monday/Thursday slate on a roster of two weeks, the rows *)
(* the slate admits are exactly those whose game is on the Monday of the   *)
(* first week or on the Thursday of the next week.                         *)
C14_MondayThursdayMatches ==
    \A k \in DOMAIN constraints :
        (constraints[k].type = "GameSlateConstraint"
            /\ constraints[k].slate = "monday_and_thursday") =>
        LET first == SetMin(Range(Weeks(data)))
            next == SetMax(Range(Weeks(data)))
        IN RowsCounted(constraints[k]) =
              {i \in DOMAIN data :
                  \/ data[i].week = first /\ Weekday(data[i].datetime) = 0
                  \/ data[i].week = next /\ Weekday(data[i].datetime) = 3}

(* The Monday/Thursday slate was accepted on the roster of two weeks, which *)
(* has a full lineup of first-week Monday players and two next-week        *)
(* Thursday players, and the solver found the problem infeasible.          *)
C14_Witness ==
    /\ call.op = "optimize_lineup"
    /\ SlatesOf(constraints) = {"monday_and_thursday"}
    /\ Cardinality({i \in DOMAIN data : data[i].week = 1 /\ Weekday(data[i].datetime) = 0})
          >= NumPlayers(site)
    /\ status = "Infeasible"
    /\ ret.kind = "UnsolvableLineupException"

(* The distinct values of the week column *)
DistinctWeeks == {data[i].week : i \in DOMAIN data}

(* C15: set_game_slate_monday_and_thursday on a roster whose week column   *)
(* does not hold exactly two distinct values fails with a ValueError, not  *)
(* with an invalid-constraint error, and leaves the constraint set as it   *)
(* was, whatever the set holds.                                            *)
C15_MondayThursdayNeedsTwoWeeks ==
    [][(call'.op = "set_game_slate"
            /\ call'.args.slate = "monday_and_thursday"
            /\ Cardinality(DistinctWeeks) # 2) =>
        (ret'.kind = "ValueError" /\ constraints' = constraints)]_vars

(* The call failed on a roster of three weeks while another slate, which   *)
(* validation would have objected to, was in the set.                      *)
C15_Witness ==
    /\ call.op = "set_game_slate"
    /\ call.args.slate = "monday_and_thursday"
    /\ Cardinality(DistinctWeeks) = 3
    /\ ret.kind = "ValueError"
    /\ SlatesOf(constraints) = {"sunday"}

(* The statuses a solve can end with *)
LpStatuses == {"Optimal", "Infeasible", "Unbounded", "Not Solved", "Undefined"}

(* C16: a call of optimize_lineup that reaches the solver solves once and  *)
(* returns a lineup if and only if the status of that solve is Optimal;    *)
(* for Infeasible, Unbounded, Not Solved and Undefined it raises           *)
(* UnsolvableLineupException, with the constraint set as it was.           *)
C16_LineupOnlyWhenOptimal ==
    /\ [](status # None =>
            /\ call.op = "optimize_lineup"
            /\ status \in LpStatuses
            /\ IF status = "Optimal" THEN ret.kind = "OptimizedLineup"
               ELSE ret.kind = "UnsolvableLineupException")
    /\ [](ret.kind = "OptimizedLineup" => status = "Optimal")
    /\ [][status' # None => constraints' = constraints]_vars

(* The solver ended Undefined on a problem with no user constraint, which  *)
(* has a solution, and no lineup was returned.                             *)
C16_Witness ==
    /\ call.op = "optimize_lineup"
    /\ status = "Undefined"
    /\ constraints = << >>
    /\ ret.kind = "UnsolvableLineupException"

(* The lineups of the site profile alone *)
UnconstrainedOptima == Optimal(LpProblem(data, site, << >>, NoLpVariable))

(* C17: the constraint set is empty after construction and after every     *)
(* clear_constraints.  With the set empty no single-constraint setter is   *)
(* rejected as conflicting, whatever was in the set before the clear; and  *)
(* an optimize_lineup that follows a clear solves the problem of the site  *)
(* profile alone.                                                          *)
C17_ClearEmptiesTheSet ==
    /\ [](call.op \in {"__init__", "clear_constraints"} => constraints = << >>)
    /\ [][(call.op = "clear_constraints" /\ call'.op \in SingleConstraintMutators)
              => ~Rejected(ret')]_vars
    /\ [][(call.op = "clear_constraints" /\ call'.op = "optimize_lineup") =>
            /\ LpProblem(data, site, constraints, lpVariable).constraints
                  = SiteConstraints(data, site)
            /\ ret'.kind = "OptimizedLineup" =>
                  SelectedOf(ret'.lineup) \in UnconstrainedOptima]_vars

(* clear_constraints has emptied a set under which the last lineup was not *)
(* a best lineup of the site profile.                                      *)
C17_Witness ==
    /\ call.op = "clear_constraints"
    /\ constraints = << >>
    /\ lpVariable.solved
    /\ lpVariable.ones \notin UnconstrainedOptima

(* C18: optimize_lineup leaves the constraint set exactly as it was,       *)
(* whether it returns a lineup, finds the roster invalid or finds the      *)
(* lineup unsolvable.                                                      *)
C18_OptimizeKeepsConstraints ==
    [][call'.op = "optimize_lineup" =>
        /\ constraints' = constraints
        /\ ret'.kind \in {"OptimizedLineup", "InvalidDataFrameException",
                          "UnsolvableLineupException"}]_vars

(* The roster was found invalid with two constraints in the set. *)
C18_Witness ==
    /\ call.op = "optimize_lineup"
    /\ ret.kind = "InvalidDataFrameException"
    /\ Len(constraints) = 2

(* The model optimize_lineup builds in the current state *)
CurrentProblem == LpProblem(data, site, constraints, lpVariable)

BothReturnLineups ==
    /\ call.op = "optimize_lineup" /\ ret.kind = "OptimizedLineup"
    /\ call'.op = "optimize_lineup" /\ ret'.kind = "OptimizedLineup"

BadStackArguments(args) ==
    \/ args.position # None /\ ~IsNoneInt(args.num_receivers)
    \/ args.position # None /\ args.position \notin {"WR", "TE"}

(* C20: set_qb_receiver_stack called with both a position and a count, or  *)
(* with a position other than WR or TE, fails with a ValueError, not with  *)
(* an invalid-constraint error, and leaves the constraint set as it was,   *)
(* whatever the set holds.                                                 *)
C20_StackArgumentsCheckedFirst ==
    [][(call'.op = "set_qb_receiver_stack" /\ BadStackArguments(call'.args)) =>
        (ret'.kind = "ValueError" /\ constraints' = constraints)]_vars

(* A position with a count was refused while the set held a QB/receiver    *)
(* stack and a cap of one player on the team, either of which validation   *)
(* would have objected to.                                                 *)
C20_Witness ==
    /\ call.op = "set_qb_receiver_stack"
    /\ call.args.position = "TE"
    /\ call.args.num_receivers = SomeInt(1)
    /\ ret.kind = "ValueError"
    /\ StacksOf(constraints, "QbReceiverStackConstraint") # {}
    /\ CappedBelowTwo(constraints, call.args.team)

(* The positions of the site profile that no row of the data frame has *)
MissingPositions ==
    {p \in DOMAIN PositionConstraints(site) : \A i \in DOMAIN data : data[i].position # p}

(* C21: when some position of the site profile has no row in the data      *)
(* frame, optimize_lineup raises InvalidDataFrameException without         *)
(* creating the variables or calling the solver, whatever the constraint   *)
(* set; the unsolvable-lineup error is only ever raised on a frame that    *)
(* has every position.                                                     *)
C21_MissingPositionIsInvalidRoster ==
    /\ [][(call'.op = "optimize_lineup" /\ MissingPositions # {}) =>
            /\ ret'.kind = "InvalidDataFrameException"
            /\ status' = None
            /\ lpVariable' = lpVariable
            /\ constraints' = constraints]_vars
    /\ [](ret.kind = "UnsolvableLineupException" => MissingPositions = {})
    /\ [](MissingPositions # {} => ~lpVariable.present)

(* The roster whose defenses all had an unrecognised position string was   *)
(* found invalid under a slate that no lineup could meet either.           *)
C21_Witness ==
    /\ call.op = "optimize_lineup"
    /\ ret.kind = "InvalidDataFrameException"
    /\ MissingPositions = {DST}
    /\ \E i \in DOMAIN data : data[i].position = TE
    /\ \E k \in DOMAIN constraints : constraints[k].type = "GameSlateConstraint"


(* The constructor found a column missing *)
MissingColumns ==
    Raises("InvalidDataFrameException", "DataFrame does not contain necessary columns")

(* The id column was named, the table has it, and two rows share an id *)
DuplicateIds ==
    /\ call.args.id_col \in table.columns
    /\ \E i, j \in DOMAIN table.rows : i # j /\ table.rows[i].id = table.rows[j].id

(* C22 as stated: construction fails for a missing column exactly when the *)
(* player name, position, salary, projected points or team column is       *)
(* missing; a table with those five is accepted without the opponent, game *)
(* datetime, year, week, home flag or id column.                           *)
C22_FiveColumnsRequired ==
    call.op = "__init__" =>
        /\ ret = MissingColumns <=>
              ~({"name", "position", "salary", "points", "team"} \subseteq table.columns)
        /\ ({"name", "position", "salary", "points", "team"} \subseteq table.columns
               /\ ~DuplicateIds /\ call.args.id_col = None)
              => ret = ReturnsNone

(* C22 amended: construction fails with the invalid-data exception exactly *)
(* when one of the ten columns name, position, year, week, points, salary, *)
(* team, opponent, is_home, datetime is missing, or the id column that was *)
(* named has an id twice; only the id column is optional: a table with the *)
(* ten columns and no id column is accepted when no id column is named.    *)
C22_TenColumnsRequired ==
    call.op = "__init__" =>
        /\ ret = MissingColumns <=> ~((Columns \ {"id"}) \subseteq table.columns)
        /\ ret.kind = "InvalidDataFrameException" <=>
              \/ ~((Columns \ {"id"}) \subseteq table.columns)
              \/ DuplicateIds
        /\ ((Columns \ {"id"}) \subseteq table.columns /\ call.args.id_col = None)
              => ret = ReturnsNone

C22_Witness ==
    /\ call.op = "__init__"
    /\ ret = MissingColumns
    /\ table.columns = Columns \ {"datetime"}


(* The lines of a file that are headers *)
Headers(file) == {k \in DOMAIN file.lines : file.lines[k].header}

(* The rows of the players of a lineup, one per player in lineup order *)
RowsOf(lineup) ==
    [k \in 1..Len(lineup.players) |->
        [header |-> FALSE,
         datetime |-> data[lineup.players[k].index].datetime,
         name |-> data[lineup.players[k].index].name,
         opponent |-> data[lineup.players[k].index].opponent,
         points |-> data[lineup.players[k].index].points,
         position |-> data[lineup.players[k].index].position,
         salary |-> data[lineup.players[k].index].salary,
         team |-> data[lineup.players[k].index].team]]

(* The paths whose extension is csv, in any case *)
CsvPaths == {ACsv, AUpperCsv, OldCsv}

(* C23: a successful write_to_file to a path at which no file exists makes *)
(* the file the header row followed by one row per player of the lineup;   *)
(* a successful write to an existing file appends the rows of the lineup   *)
(* after its lines, without a header; so after k >= 1 writes a file that   *)
(* did not exist before is one header row followed by the rows of the      *)
(* written lineups in call order.  A path whose extension is not csv (or   *)
(* no path) is rejected with ValueError and no file changes.               *)
C23_HeaderOnceThenRowsInCallOrder ==
    /\ [][call'.op = "write_to_file" =>
            LET file_path == call'.args.file_path
                rows == RowsOf(call'.args.self)
            IN IF file_path # << >> /\ file_path[1] \in CsvPaths
               THEN /\ ret' = ReturnsNone
                    /\ Len(rows) = NumPlayers(site)
                    /\ files'[file_path[1]].exists
                    /\ files'[file_path[1]].lines =
                          IF files[file_path[1]].exists
                          THEN files[file_path[1]].lines \o rows
                          ELSE <<[header |-> TRUE, fieldnames |-> FieldNames]>> \o rows
                    /\ \A p \in Paths \ {file_path[1]} : files'[p] = files[p]
               ELSE /\ ret'.kind = "ValueError"
                    /\ files' = files]_vars
    /\ [](\A p \in Paths \ {OldCsv} :
            files[p].exists =>
                /\ Headers(files[p]) = {1}
                /\ Len(files[p].lines) > 1
                /\ (Len(files[p].lines) - 1) % NumPlayers(site) = 0)
    /\ [](files[OldCsv].exists /\ Headers(files[OldCsv]) = {})
    /\ [](\A p \in Paths \ CsvPaths : ~files[p].exists)

(* Two lineups, the second without a player of the first, were written to  *)
(* a path at which no file existed, and the last write was rejected for a  *)
(* path that does not end in csv.                                          *)
C23_Witness ==
    /\ call.op = "write_to_file"
    /\ call.args.file_path = <<ACsvTxt>>
    /\ ret.kind = "ValueError"
    /\ Len(files[ACsv].lines) = 1 + 2 * NumPlayers(site)
    /\ \E k \in 2..(1 + NumPlayers(site)) : files[ACsv].lines[k].name = "Adams"
    /\ \A k \in (2 + NumPlayers(site))..Len(files[ACsv].lines) :
          files[ACsv].lines[k].name # "Adams"


(* The call was made on the second optimizer *)
OnOther(c) == "instance" \in DOMAIN c.args /\ c.args.instance = "other"

(* C24: two optimizers constructed from the same table are isolated: a     *)
(* call on one (adding a constraint, clearing, solving, constructing)      *)
(* leaves the constraint set, the modelled roster and the solved column of *)
(* the other unchanged; each has the roster its construction from the      *)
(* table yields, and what a solve on one returns is what it returns when   *)
(* the other does not exist; no operation changes the table of the caller. *)
C24_OptimizersAreIsolated ==
    /\ [][table' = table]_vars
    /\ [][IF OnOther(call')
          THEN data' = data /\ constraints' = constraints /\ lpVariable' = lpVariable
          ELSE other' = other]_vars
    /\ [](data # << >> => data = Construct(table.rows))
    /\ [](other.data # << >> => other.data = Construct(table.rows))
    /\ [][(call'.op = "optimize_lineup" /\ ~OnOther(call')) =>
            \E outcome \in OptimizeLineupOutcomes(data, site, constraints, lpVariable) :
                ret' = outcome.ret]_vars

(* Both optimizers exist, the table had rows that construction drops, the  *)
(* first excludes a player and has solved, and the second, with no         *)
(* constraint, returns a lineup with that player.                          *)
C24_Witness ==
    /\ OnOther(call)
    /\ call.op = "optimize_lineup"
    /\ ret.kind = "OptimizedLineup"
    /\ other.constraints = << >>
    /\ Len(constraints) = 1
    /\ constraints[1].type = "ExcludePlayerConstraint"
    /\ lpVariable.present
    /\ Len(table.rows) > Len(data)
    /\ \E k \in DOMAIN ret.lineup.players :
          other.data[ret.lineup.players[k].index].name = "Adams"


(* The rows of the table of the caller that are rows of the optimizer's    *)
(* frame                                                                   *)
Modelled == {i \in DOMAIN table.rows : i \in DOMAIN data}

(* The position string is one normalize_position maps to a position *)
Recognised(position) == NormalizePosition(position) \in {QB, RB, WR, TE, DST}

(* C26 as stated: a row of the table is left out of the model exactly when *)
(* its salary or its projected points is missing or its salary is not      *)
(* positive.                                                               *)
C26_DroppedIffSalaryOrPointsUnusable ==
    data # << >> =>
        \A i \in DOMAIN table.rows :
            i \notin Modelled <=>
                \/ "salary" \in table.rows[i].na
                \/ "points" \in table.rows[i].na
                \/ table.rows[i].salary <= 0

(* C26 amended: a row of the table is left out of the model exactly when a *)
(* value of any of its columns is missing, its position string is not      *)
(* recognised, or its salary is not positive; every other row is in the    *)
(* optimizer's frame and has a decision variable in the model.             *)
C26_DroppedIffAnyValueUnusable ==
    data # << >> =>
        /\ \A i \in DOMAIN table.rows :
              i \notin Modelled <=>
                  \/ table.rows[i].na # {}
                  \/ ~Recognised(table.rows[i].position)
                  \/ table.rows[i].salary <= 0
        /\ DOMAIN data \subseteq DOMAIN table.rows
        /\ LpProblem(data, site, constraints, lpVariable).variables = Modelled

(* An optimizer was constructed from a table with a row whose opponent is  *)
(* missing and a row with an unrecognised position, both with salary and   *)
(* points, and it has solved.                                              *)
C26_Witness ==
    /\ data # << >>
    /\ call.op = "optimize_lineup" /\ ~OnOther(call)
    /\ ret.kind = "OptimizedLineup"
    /\ \E i \in DOMAIN table.rows \ Modelled :
          /\ table.rows[i].na = {"opponent"}
          /\ table.rows[i].salary > 0
    /\ \E i \in DOMAIN table.rows \ Modelled :
          /\ table.rows[i].na = {}
          /\ table.rows[i].salary > 0
          /\ ~Recognised(table.rows[i].position)


(* The players of the returned lineup at a position of the roster *)
LineupAt(position) ==
    {k \in DOMAIN ret.lineup.players : data[ret.lineup.players[k].index].position = position}

(* The players of the returned lineup labelled FLEX *)
Flexes == {k \in DOMAIN ret.lineup.players : ret.lineup.players[k].lineup_position = FLEX}

(* The position has as many players in the returned lineup as the site     *)
(* allows                                                                  *)
AtMaximum(position) ==
    Cardinality(LineupAt(position)) = PositionConstraints(site)[position][2]

(* The first of RB, WR, TE at its maximum, as a set: empty if none is *)
FirstAtMaximum ==
    IF AtMaximum(RB) THEN {RB}
    ELSE IF AtMaximum(WR) THEN {WR}
    ELSE IF AtMaximum(TE) THEN {TE}
    ELSE {}

(* C25: in a returned lineup, the player labelled FLEX is a player of the  *)
(* first of RB, WR, TE whose selected count equals the maximum of the      *)
(* site, and no player of that position in the lineup starts later; every  *)
(* other player is labelled with its own position; at most one player is   *)
(* labelled FLEX, and none if no position is at its maximum.               *)
C25_FlexIsLatestOfFirstFullPosition ==
    ret.kind = "OptimizedLineup" =>
        /\ Cardinality(Flexes) <= 1
        /\ FirstAtMaximum = {} => Flexes = {}
        /\ \A position \in FirstAtMaximum :
              \E k \in LineupAt(position) :
                  /\ Flexes = {k}
                  /\ \A j \in LineupAt(position) :
                        data[ret.lineup.players[j].index].datetime
                            <= data[ret.lineup.players[k].index].datetime
        /\ \A k \in DOMAIN ret.lineup.players \ Flexes :
              ret.lineup.players[k].lineup_position
                  = data[ret.lineup.players[k].index].position

(* The wide receivers are at their maximum, the running backs are not, and *)
(* the wide receiver of the Monday game, not one of the Sunday games, is   *)
(* the flex.                                                               *)
C25_Witness ==
    /\ ret.kind = "OptimizedLineup"
    /\ ~AtMaximum(RB) /\ AtMaximum(WR)
    /\ \E k \in Flexes : data[ret.lineup.players[k].index].name = "Golladay"
    /\ \E k \in LineupAt(WR) : data[ret.lineup.players[k].index].datetime = Sun13

(* C27: at DraftKings, FanDuel and Yahoo every returned lineup has exactly *)
(* one player labelled FLEX: whatever counts of running backs, wide        *)
(* receivers and tight ends within the position bounds make up a lineup of *)
(* nine with one quarterback and one defense, exactly one of the three     *)
(* positions is at its maximum.                                            *)
C27_ExactlyOneFlex ==
    /\ ret.kind = "OptimizedLineup" =>
          /\ Cardinality(Flexes) = 1
          /\ Cardinality({p \in {RB, WR, TE} : AtMaximum(p)}) = 1
    /\ \A s \in Sites :
          LET bounds == PositionConstraints(s) IN
          \A q \in bounds[QB][1]..bounds[QB][2], r \in bounds[RB][1]..bounds[RB][2],
             w \in bounds[WR][1]..bounds[WR][2], t \in bounds[TE][1]..bounds[TE][2],
             d \in bounds[DST][1]..bounds[DST][2] :
              q + r + w + t + d = NumPlayers(s) =>
                  Cardinality({p \in {RB, WR, TE} :
                                  (CASE p = RB -> r [] p = WR -> w [] p = TE -> t)
                                      = bounds[p][2]}) = 1

(* A lineup whose flex is a tight end: the running backs and the wide      *)
(* receivers are at their minimum.                                         *)
C27_Witness ==
    /\ ret.kind = "OptimizedLineup"
    /\ Cardinality(Flexes) = 1
    /\ AtMaximum(TE) /\ ~AtMaximum(RB) /\ ~AtMaximum(WR)
    /\ \E k \in Flexes : data[ret.lineup.players[k].index].position = TE


(* The rows of the roster a player constraint selects: those whose name or *)
(* id column holds its key                                                 *)
RecordsOf(c) == {i \in DOMAIN data : data[i][c.name_col] = c.player}

(* C28: the constraint list never holds an include and an exclude that     *)
(* select the same row of the roster, whether the players were given by    *)
(* name or by id.                                                          *)
C28_NoRecordIncludedAndExcluded ==
    \A j, k \in DOMAIN constraints :
        (constraints[j].type = "IncludePlayerConstraint"
            /\ constraints[k].type = "ExcludePlayerConstraint")
        => RecordsOf(constraints[j]) \cap RecordsOf(constraints[k]) = {}

(* An exclude by id of the player included by name has just been accepted. *)
C28_Witness ==
    /\ call.op = "set_exclude_player"
    /\ call.args = [by |-> "id", key |-> "id6"]
    /\ ret = ReturnsNone
    /\ constraints = <<IncludePlayerConstraint("Adams", "name"),
                       ExcludePlayerConstraint("id6", "id")>>
    /\ RecordsOf(constraints[1]) = RecordsOf(constraints[2])
    /\ RecordsOf(constraints[1]) # {}


(* The second constraint is a maximum that the first, accepted before it,  *)
(* would not be accepted after: a stack of the team of a maximum below     *)
(* two, or an only-include list of teams whose maximum is zero.            *)
AcceptedAfterOnly(first, second) ==
    /\ second.type = "MaxPlayersFromTeamConstraint"
    /\ \/ /\ first.type \in {"QbReceiverStackConstraint", "RbDstStackConstraint"}
          /\ first.team = second.team
          /\ second.maximum < 2
       \/ /\ first.type = "OnlyIncludeTeamsConstraint"
          /\ second.maximum = 0
          /\ Range(first.teams) = {second.team}

(* C29 as stated: conflict detection does not depend on the order of       *)
(* insertion: when the list holds two constraints, each acceptable on its  *)
(* own, that were accepted one after the other, the first would have been  *)
(* accepted after the second as well.                                      *)
C29_ConflictsAreSymmetric ==
    (/\ Len(constraints) = 2
     /\ IsValid(constraints[1], << >>).ok
     /\ IsValid(constraints[2], << >>).ok)
    => IsValid(constraints[1], <<constraints[2]>>).ok

(* C29 amended: a maximum for a team is checked against the maximums and   *)
(* minimums of that team only: it is rejected exactly when the list holds  *)
(* a maximum for the team or a minimum for the team above it, and appended *)
(* otherwise, whatever stacks and only-include lists the list holds.  For  *)
(* two constraints accepted one after the other, the first is rejected     *)
(* after the second only when the second is such a maximum: below two for  *)
(* the team of a stack, or zero for the teams of an only-include list.     *)
C29_MaximumIgnoresStacksAndIncludes ==
    /\ [][(call'.op = "set_max_players_from_team" /\ ret'.kind # "ValueError") =>
            IF \/ MaxesFor(constraints, call'.args.team) # {}
               \/ \E k \in MinsFor(constraints, call'.args.team) :
                     constraints[k].minimum > call'.args.n
            THEN Rejected(ret') /\ constraints' = constraints
            ELSE /\ ret' = ReturnsNone
                 /\ constraints' =
                       Append(constraints,
                              MaxPlayersFromTeamConstraint(call'.args.n, call'.args.team))]_vars
    /\ []((/\ Len(constraints) = 2
           /\ IsValid(constraints[1], << >>).ok
           /\ IsValid(constraints[2], << >>).ok
           /\ ~IsValid(constraints[1], <<constraints[2]>>).ok)
          => AcceptedAfterOnly(constraints[1], constraints[2]))

(* A maximum of one player of the team has just been accepted after the    *)
(* stack of that team, which is rejected after that maximum.               *)
C29_Witness ==
    /\ call.op = "set_max_players_from_team"
    /\ ret = ReturnsNone
    /\ Len(constraints) = 2
    /\ constraints[1].type = "QbReceiverStackConstraint"
    /\ constraints[1].team = "GB"
    /\ constraints[2] = MaxPlayersFromTeamConstraint(1, "GB")
    /\ IsValid(constraints[2], << >>).ok
    /\ ~IsValid(constraints[1], <<constraints[2]>>).ok

(* The players of its team a QB/receiver stack asks for: the quarterback   *)
(* and its receivers, one if no number was given                           *)
Demands(stack) ==
    1 + (IF IsNoneInt(stack.num_receivers) THEN 1 ELSE IntOf(stack.num_receivers))

(* C30 as stated: a QB/receiver stack is never accepted into a list that   *)
(* holds a max-n of its team below the players the stack asks for: for     *)
(* every stack of the list, every max-n of its team added before it allows *)
(* the quarterback and the receivers.                                      *)
C30_StackFitsEarlierCap ==
    \A k \in StacksOf(constraints, "QbReceiverStackConstraint") :
        \A j \in MaxesFor(constraints, constraints[k].team) :
            j < k => constraints[j].maximum >= Demands(constraints[k])

(* C30 amended: a QB/receiver stack is checked against a maximum of two    *)
(* players whatever its receiver count: with no QB/receiver stack in the   *)
(* list, it is rejected exactly when the list holds a max-n of its team    *)
(* below two and appended otherwise, so every max-n of its team added      *)
(* before an accepted stack is at least two, and may be below the players  *)
(* the stack asks for.                                                     *)
C30_StackCheckedAgainstTwo ==
    /\ [][(/\ call'.op = "set_qb_receiver_stack"
           /\ ret'.kind # "ValueError"
           /\ StacksOf(constraints, "QbReceiverStackConstraint") = {}) =>
            IF \E j \in MaxesFor(constraints, call'.args.team) : constraints[j].maximum < 2
            THEN Rejected(ret') /\ constraints' = constraints
            ELSE ret' = ReturnsNone /\ Len(constraints') = Len(constraints) + 1]_vars
    /\ [](\A k \in StacksOf(constraints, "QbReceiverStackConstraint") :
            \A j \in MaxesFor(constraints, constraints[k].team) :
                j < k => constraints[j].maximum >= 2)

(* A stack with two receivers has just been accepted after a maximum of    *)
(* two players of its team.                                                *)
C30_Witness ==
    /\ call.op = "set_qb_receiver_stack"
    /\ call.args.num_receivers = SomeInt(2)
    /\ ret = ReturnsNone
    /\ Len(constraints) = 2
    /\ constraints[1] = MaxPlayersFromTeamConstraint(2, "GB")
    /\ constraints[2].type = "QbReceiverStackConstraint"
    /\ constraints[2].team = "GB"
    /\ Demands(constraints[2]) = 3

====
